---- MODULE Spec2Model ----
(***************************************************************************)
(* Model of the concept_backend repository.                                *)
(*                                                                         *)
(* Commentary concept (src/src/concepts/Commentary/CommentaryConcept.ts):  *)
(* three document collections (threads, comments, reactions), the four     *)
(* actions postComment, reply, react, deleteComment and the four queries.  *)
(* A collection is a sequence of documents in insertion order, so that     *)
(* findOne returns the first match, as the document store does.            *)
(***************************************************************************)
EXTENDS Integers, Sequences, FiniteSets, TLC

\* ------------------------------------------------------------------------
\* Bounds and input domains
\* ------------------------------------------------------------------------

\* Number of identifiers freshID can hand out before the model stops creating.
MaxIds == 4

Users == {"alice", "bob"}
Books == {"B1"}
Sections == {"S1", "S2"}
Texts == {"text"}
ReactionTypes == {"like", "love"}

\* Identifiers are the naturals 1..MaxIds; one more is kept as an input that
\* freshID never issues (an id that was never created).
Ids == 1..(MaxIds + 1)

\* parentId is optional in CommentDoc: NoParent stands for the absent field.
NoParent == 0

\* The null that findOne returns when no document matches.
Null == [_id |-> 0]

\* The success result carries no error field.
NoError == "none"
ErrParentNotFound == "Parent comment with ID not found."
ErrTargetNotFound == "Target comment with ID not found."
ErrCommentNotFound == "Comment with ID not found."
ErrNotAuthor == "Requestor is not the author of comment."
ErrAlreadyReacted == "User already reacted with type to comment."

VARIABLES
    threads,    \* Collection<ThreadDoc>
    comments,   \* Collection<CommentDoc>
    reactions,  \* Collection<ReactionDoc>
    nextId,     \* the next identifier freshID returns
    ret,        \* the last invocation: operation, arguments, error, result
    deleted,    \* history: ids that successful deleteComment calls removed
    matches,        \* Matching: Collection<Match>
    finishedBooks,  \* Matching: Collection<FinishedBook>
    chats,          \* Messaging: Collection<ChatDoc>
    messages,       \* Messaging: Collection<MessageDoc>
    blocks,         \* Messaging: Collection<BlockDoc>
    now,            \* Messaging: the clock that new Date() reads
    removedByBlock, \* Messaging history: <<chat, requester>> for each chat a
                    \* successful blockUser pulled its requester from
    profiles,       \* Profiles: Collection<ProfileDocument>
    libraries,      \* BookReading: Collection<LibraryDoc>
    bookStructures, \* BookReading: Collection<BookStructureDoc>
    progresses,     \* BookReading: Collection<ProgressDoc>
    calls           \* per process: the invocation in flight, its position
                    \* between two store calls and its local variables

store == <<threads, comments, reactions>>
matchingVars == <<matches, finishedBooks>>
messagingVars == <<chats, messages, blocks, now, removedByBlock>>
bookReadingVars == <<libraries, bookStructures, progresses>>

\* What the handlers of one concept never touch: the other concepts' state.
otherConceptsThanCommentary ==
    <<matchingVars, messagingVars, profiles, bookReadingVars>>
otherThanCommentary == <<otherConceptsThanCommentary, calls>>
otherThanMatching ==
    <<threads, comments, reactions, deleted, messagingVars, profiles,
      bookReadingVars, calls>>
otherConceptsThanMessaging ==
    <<threads, comments, reactions, deleted, matchingVars, profiles,
      bookReadingVars>>
otherThanMessaging == <<otherConceptsThanMessaging, calls>>
otherThanProfiles ==
    <<threads, comments, reactions, deleted, nextId, matchingVars,
      messagingVars, bookReadingVars, calls>>
otherThanBookReading ==
    <<threads, comments, reactions, deleted, nextId, matchingVars,
      messagingVars, profiles, calls>>

vars ==
    <<threads, comments, reactions, nextId, ret, deleted, matchingVars,
      messagingVars, profiles, bookReadingVars, calls>>

\* ------------------------------------------------------------------------
\* Store primitives
\* ------------------------------------------------------------------------

Range(s) == {s[i] : i \in 1..Len(s)}

\* freshID(): the k-th identifier requested within one handler (k = 0, 1).
freshID(k) == nextId + k

\* collection.findOne(filter): the first of the matching documents, or null.
firstOrNull(hits) == IF Len(hits) = 0 THEN Null ELSE Head(hits)

\* Index of the first document with the given _id, 0 if there is none
\* (updateOne({_id}, ...) modifies the first match only).
firstIndex(coll, id) ==
    IF \E i \in 1..Len(coll) : coll[i]._id = id
    THEN CHOOSE i \in 1..Len(coll) :
            /\ coll[i]._id = id
            /\ \A j \in 1..(i - 1) : coll[j]._id # id
    ELSE 0

\* Variant of findThread: a thread whose top-level list is empty is not found.
findThreadNonEmpty(book, section) ==
    firstOrNull(SelectSeq(threads,
                          LAMBDA t : /\ t.book = book
                                     /\ t.section = section
                                     /\ t.topLevelCommentIds # <<>>))

\* this.threads.findOne({ book, section })
findThread(book, section) ==
    firstOrNull(SelectSeq(threads,
                          LAMBDA t : /\ t.book = book
                                     /\ t.section = section))

\* this.comments.findOne({ _id: id })
findComment(id) ==
    firstOrNull(SelectSeq(comments, LAMBDA c : c._id = id))

\* Variant of findReaction: the filter leaves out the type.
findReactionAnyType(reactor, target, type) ==
    firstOrNull(SelectSeq(reactions,
                          LAMBDA r : /\ r.reactor = reactor
                                     /\ r.targetCommentId = target))

\* this.reactions.findOne({ reactor, targetCommentId: target, type })
findReaction(reactor, target, type) ==
    firstOrNull(SelectSeq(reactions,
                          LAMBDA r : /\ r.reactor = reactor
                                     /\ r.targetCommentId = target
                                     /\ r.type = type))

\* Variant of pushTopLevel: the filter is empty, so the first thread of the
\* collection takes the id.
pushTopLevelFirstThread(ths, threadId, commentId) ==
    IF Len(ths) = 0 THEN ths
    ELSE [ths EXCEPT ![1].topLevelCommentIds = Append(@, commentId)]

\* this.threads.updateOne({ _id: threadId }, { $push: { topLevelCommentIds } })
pushTopLevel(ths, threadId, commentId) ==
    LET i == firstIndex(ths, threadId)
    IN IF i = 0 THEN ths
       ELSE [ths EXCEPT ![i].topLevelCommentIds = Append(@, commentId)]

\* Variant of pushReaction: the reaction id is attached to no comment.
pushReactionNowhere(cms, target, reactionId) ==
    cms

\* this.comments.updateOne({ _id: target }, { $push: { reactionIds } })
pushReaction(cms, target, reactionId) ==
    LET i == firstIndex(cms, target)
    IN IF i = 0 THEN cms
       ELSE [cms EXCEPT ![i].reactionIds = Append(@, reactionId)]

\* Variant of pullTopLevel: $pop (drop the last id) instead of $pull.
popTopLevel(ths, threadId, target) ==
    LET i == firstIndex(ths, threadId)
    IN IF i = 0 THEN ths
       ELSE [ths EXCEPT ![i].topLevelCommentIds =
                            SubSeq(@, 1, Len(@) - 1)]

\* Variant of pullTopLevel: a thread left without top-level comments is
\* deleted.
pullTopLevelAndPrune(ths, threadId, target) ==
    LET i == firstIndex(ths, threadId)
        pulled == [ths EXCEPT ![i].topLevelCommentIds =
                                  SelectSeq(@, LAMBDA c : c # target)]
    IN IF i = 0 THEN ths
       ELSE SelectSeq(pulled, LAMBDA t : t.topLevelCommentIds # <<>>)

\* this.threads.updateOne({ _id: threadId }, { $pull: { topLevelCommentIds } })
pullTopLevel(ths, threadId, target) ==
    LET i == firstIndex(ths, threadId)
    IN IF i = 0 THEN ths
       ELSE [ths EXCEPT ![i].topLevelCommentIds =
                            SelectSeq(@, LAMBDA c : c # target)]

\* this.comments.find({ parentId: id }).toArray(), mapped to the ids
directChildren(id) ==
    LET kids == SelectSeq(comments, LAMBDA c : c.parentId = id)
    IN [i \in 1..Len(kids) |-> kids[i]._id]

\* Variant of collectDescendants: the direct replies only, no walk below.
collectChildrenOnly(queue, commentsToDelete) ==
    IF Len(queue) = 0 THEN commentsToDelete
    ELSE commentsToDelete \o directChildren(Head(queue))

\* The while loop of deleteComment: breadth-first walk over the replies.
RECURSIVE collectDescendants(_, _)
collectDescendants(queue, commentsToDelete) ==
    IF Len(queue) = 0 THEN commentsToDelete
    ELSE LET children == directChildren(Head(queue))
         IN collectDescendants(Tail(queue) \o children,
                               commentsToDelete \o children)

\* Variant of deleteReactionsOf: $nin instead of $in.
deleteReactionsNotOf(commentsToDelete) ==
    SelectSeq(reactions,
              LAMBDA r : r.targetCommentId \in Range(commentsToDelete))

\* this.reactions.deleteMany({ targetCommentId: { $in: commentsToDelete } })
deleteReactionsOf(commentsToDelete) ==
    SelectSeq(reactions,
              LAMBDA r : r.targetCommentId \notin Range(commentsToDelete))

\* Variant of deleteCommentsIn: deleteOne, only the first match goes.
deleteOneComment(commentsToDelete) ==
    LET hit == {i \in 1..Len(comments) :
                   comments[i]._id \in Range(commentsToDelete)}
    IN IF hit = {} THEN comments
       ELSE LET k == CHOOSE i \in hit : \A j \in hit : i <= j
            IN SubSeq(comments, 1, k - 1)
                  \o SubSeq(comments, k + 1, Len(comments))

\* this.comments.deleteMany({ _id: { $in: commentsToDelete } })
deleteCommentsIn(commentsToDelete) ==
    SelectSeq(comments, LAMBDA c : c._id \notin Range(commentsToDelete))

\* ------------------------------------------------------------------------
\* Documents
\* ------------------------------------------------------------------------

\* threadDoc = { _id, book, section, topLevelCommentIds: [] }
newThread(id, book, section) ==
    [_id |-> id, book |-> book, section |-> section,
     topLevelCommentIds |-> <<>>]

\* newComment of postComment: no parentId
newTopLevelComment(id, author, body, threadId) ==
    [_id |-> id, author |-> author, body |-> body, threadId |-> threadId,
     parentId |-> NoParent, reactionIds |-> <<>>]

\* Variant of newReply: the parent's id is taken as the thread id.
newReplyOwnThread(id, author, body, parentComment) ==
    [_id |-> id, author |-> author, body |-> body,
     threadId |-> parentComment._id,
     parentId |-> parentComment._id, reactionIds |-> <<>>]

\* Variant of newReply: the new comment names itself as its parent.
newReplySelfParent(id, author, body, parentComment) ==
    [_id |-> id, author |-> author, body |-> body,
     threadId |-> parentComment.threadId,
     parentId |-> id, reactionIds |-> <<>>]

\* newComment of reply: threadId of the parent, parentId = parent
newReply(id, author, body, parentComment) ==
    [_id |-> id, author |-> author, body |-> body,
     threadId |-> parentComment.threadId,
     parentId |-> parentComment._id, reactionIds |-> <<>>]

\* newReaction of react
newReaction(id, reactor, target, type) ==
    [_id |-> id, reactor |-> reactor, targetCommentId |-> target,
     type |-> type]

\* ------------------------------------------------------------------------
\* Precondition checks (the early returns of the handlers)
\* ------------------------------------------------------------------------

\* reply: if (!parentComment) return { error }
replyError(parentComment) ==
    IF parentComment = Null THEN ErrParentNotFound ELSE NoError

\* Variant of reactError: the target is not checked.
reactErrorNoTarget(targetComment, existingReaction) ==
    IF existingReaction # Null THEN ErrAlreadyReacted ELSE NoError

\* react: if (!targetComment) ...; if (existingReaction) ...
reactError(targetComment, existingReaction) ==
    IF targetComment = Null THEN ErrTargetNotFound
    ELSE IF existingReaction # Null THEN ErrAlreadyReacted
    ELSE NoError

\* Variant of deleteError: the author is not checked.
deleteErrorNoAuthor(targetComment, requestor) ==
    IF targetComment = Null THEN ErrCommentNotFound ELSE NoError

\* deleteComment: if (!targetComment) ...; if (author !== requestor) ...
deleteError(targetComment, requestor) ==
    IF targetComment = Null THEN ErrCommentNotFound
    ELSE IF targetComment.author # requestor THEN ErrNotAuthor
    ELSE NoError

\* ------------------------------------------------------------------------
\* Actions
\* ------------------------------------------------------------------------

\* The processes that run invocations side by side.
Procs == {1, 2}

\* A process with no invocation in flight.  The fields of an invocation:
\* the operation, the store call it performs next, its arguments, the
\* document its first lookup returned, the work list of its loop, the list
\* it collects and the identifier it drew from freshID.
Idle ==
    [op |-> "idle", pc |-> "idle", args |-> <<>>, doc |-> Null,
     queue |-> <<>>, collected |-> <<>>, id |-> 0]

\* The book structures the tests pre-populate: the concept has no action
\* that writes them.  One book with an ordered section list, one book
\* without a structure (the tests' UNKNOWN_BOOK).
BOOK_STRUCTURES ==
    << [_id |-> "Dune", sections |-> <<"prologue", "chap1", "epilogue">>] >>

Init ==
    /\ threads = <<>>
    /\ comments = <<>>
    /\ reactions = <<>>
    /\ nextId = 1
    /\ ret = [op |-> "init", args |-> <<>>, error |-> NoError, result |-> 0]
    /\ deleted = {}
    /\ matches = <<>>
    /\ finishedBooks = <<>>
    /\ chats = <<>>
    /\ messages = <<>>
    /\ blocks = <<>>
    /\ now = 0
    /\ removedByBlock = {}
    /\ profiles = <<>>
    /\ libraries = <<>>
    /\ bookStructures = BOOK_STRUCTURES
    /\ progresses = <<>>
    /\ calls = [p \in Procs |-> Idle]

postComment(author, book, section, body) ==
    LET threadDoc == findThread(book, section)
        created == threadDoc = Null
        threadId == IF created THEN freshID(0) ELSE threadDoc._id
        newCommentId == IF created THEN freshID(1) ELSE freshID(0)
        threads1 == IF created
                    THEN Append(threads, newThread(threadId, book, section))
                    ELSE threads
    IN /\ newCommentId <= MaxIds
       /\ comments' = Append(comments,
                         newTopLevelComment(newCommentId, author, body,
                                            threadId))
       /\ threads' = pushTopLevel(threads1, threadId, newCommentId)
       /\ nextId' = newCommentId + 1
       /\ ret' = [op |-> "postComment",
                  args |-> [author |-> author, book |-> book,
                            section |-> section, body |-> body],
                  error |-> NoError, result |-> newCommentId]
       /\ UNCHANGED <<reactions, deleted,
                         otherThanCommentary>>

\* Variant of reply: the new comment is also pushed to the thread's top-level
\* list, as postComment does.
replyListed(author, parent, body) ==
    LET parentComment == findComment(parent)
        error == replyError(parentComment)
        newCommentId == freshID(0)
        args == [author |-> author, parent |-> parent, body |-> body]
    IN IF error # NoError
       THEN /\ ret' = [op |-> "reply", args |-> args, error |-> error,
                       result |-> 0]
            /\ UNCHANGED <<threads, comments, reactions, nextId, deleted,
                         otherThanCommentary>>
       ELSE /\ newCommentId <= MaxIds
            /\ comments' = Append(comments,
                              newReply(newCommentId, author, body,
                                       parentComment))
            /\ threads' = pushTopLevel(threads, parentComment.threadId,
                                       newCommentId)
            /\ nextId' = newCommentId + 1
            /\ ret' = [op |-> "reply", args |-> args, error |-> NoError,
                       result |-> newCommentId]
            /\ UNCHANGED <<reactions, deleted,
                         otherThanCommentary>>

reply(author, parent, body) ==
    LET parentComment == findComment(parent)
        error == replyError(parentComment)
        newCommentId == freshID(0)
        args == [author |-> author, parent |-> parent, body |-> body]
    IN IF error # NoError
       THEN /\ ret' = [op |-> "reply", args |-> args, error |-> error,
                       result |-> 0]
            /\ UNCHANGED <<threads, comments, reactions, nextId, deleted,
                         otherThanCommentary>>
       ELSE /\ newCommentId <= MaxIds
            /\ comments' = Append(comments,
                              newReply(newCommentId, author, body,
                                       parentComment))
            /\ nextId' = newCommentId + 1
            /\ ret' = [op |-> "reply", args |-> args, error |-> NoError,
                       result |-> newCommentId]
            /\ UNCHANGED <<threads, reactions, deleted,
                         otherThanCommentary>>

react(reactor, target, type) ==
    LET targetComment == findComment(target)
        existingReaction == findReaction(reactor, target, type)
        error == reactError(targetComment, existingReaction)
        newReactionId == freshID(0)
        args == [reactor |-> reactor, target |-> target, type |-> type]
    IN IF error # NoError
       THEN /\ ret' = [op |-> "react", args |-> args, error |-> error,
                       result |-> 0]
            /\ UNCHANGED <<threads, comments, reactions, nextId, deleted,
                         otherThanCommentary>>
       ELSE /\ newReactionId <= MaxIds
            /\ reactions' = Append(reactions,
                               newReaction(newReactionId, reactor, target,
                                           type))
            /\ comments' = pushReaction(comments, target, newReactionId)
            /\ nextId' = newReactionId + 1
            /\ ret' = [op |-> "react", args |-> args, error |-> NoError,
                       result |-> newReactionId]
            /\ UNCHANGED <<threads, deleted,
                         otherThanCommentary>>

deleteComment(requestor, target) ==
    LET targetComment == findComment(target)
        error == deleteError(targetComment, requestor)
        commentsToDelete == collectDescendants(<<target>>, <<target>>)
        args == [requestor |-> requestor, target |-> target]
    IN IF error # NoError
       THEN /\ ret' = [op |-> "deleteComment", args |-> args,
                       error |-> error, result |-> 0]
            /\ UNCHANGED <<threads, comments, reactions, nextId, deleted,
                         otherThanCommentary>>
       ELSE /\ reactions' = deleteReactionsOf(commentsToDelete)
            /\ comments' = deleteCommentsIn(commentsToDelete)
            /\ threads' = IF targetComment.parentId = NoParent
                          THEN pullTopLevel(threads, targetComment.threadId,
                                            target)
                          ELSE threads
            /\ deleted' = deleted \cup Range(commentsToDelete)
            /\ ret' = [op |-> "deleteComment", args |-> args,
                       error |-> NoError, result |-> 0]
            /\ UNCHANGED <<nextId, otherThanCommentary>>

\* ------------------------------------------------------------------------
\* Queries (read-only)
\* ------------------------------------------------------------------------

\* Variant of _getThreadComments: the comments listed in the thread's
\* topLevelCommentIds.
_getThreadCommentsListed(book, section) ==
    LET threadDoc == findThread(book, section)
    IN IF threadDoc = Null THEN <<>>
       ELSE SelectSeq(comments,
                      LAMBDA c : c._id \in Range(threadDoc.topLevelCommentIds))

\* _getThreadComments: the comments whose threadId is the pair's thread
_getThreadComments(book, section) ==
    LET threadDoc == findThread(book, section)
    IN IF threadDoc = Null THEN <<>>
       ELSE SelectSeq(comments, LAMBDA c : c.threadId = threadDoc._id)

\* _getCommentReactions: the reactions whose targetCommentId is the comment
_getCommentReactions(comment) ==
    SelectSeq(reactions, LAMBDA r : r.targetCommentId = comment)

\* _getComment: the comment or null
_getComment(commentId) == findComment(commentId)

\* _getThreadByBookAndSection: the thread or null
_getThreadByBookAndSection(book, section) == findThread(book, section)

\* An invocation of the query _getThreadComments: it returns its result and
\* writes nothing.
call_getThreadComments(book, section) ==
    /\ ret' = [op |-> "_getThreadComments",
               args |-> [book |-> book, section |-> section],
               error |-> NoError,
               result |-> _getThreadComments(book, section)]
    /\ UNCHANGED <<threads, comments, reactions, nextId, deleted,
                         otherThanCommentary>>

\* ------------------------------------------------------------------------
\* Specification
\* ------------------------------------------------------------------------

Next ==
    \/ \E author \in Users, book \in Books, section \in Sections,
          body \in Texts : postComment(author, book, section, body)
    \/ \E author \in Users, parent \in Ids, body \in Texts :
          reply(author, parent, body)
    \/ \E reactor \in Users, target \in Ids, type \in ReactionTypes :
          react(reactor, target, type)
    \/ \E requestor \in Users, target \in Ids :
          deleteComment(requestor, target)
    \/ \E book \in Books, section \in Sections :
          call_getThreadComments(book, section)

Spec == Init /\ [][Next]_vars

\* ------------------------------------------------------------------------
\* Vocabulary of the properties
\* ------------------------------------------------------------------------

CommentIds == {c._id : c \in Range(comments)}

\* The comment document with the given id (the id is in CommentIds).
CommentById(id) == CHOOSE c \in Range(comments) : c._id = id

\* a is c or is reachable from c by following parentId at most n times.
RECURSIVE ReachesUp(_, _, _)
ReachesUp(c, a, n) ==
    \/ c = a
    \/ /\ n > 0
       /\ c \in CommentIds
       /\ CommentById(c).parentId # NoParent
       /\ ReachesUp(CommentById(c).parentId, a, n - 1)

\* The target and its transitive replies, by the parent-pointer relation.
Subtree(target) == {c \in CommentIds : ReachesUp(c, target, Len(comments))}

ThreadsOf(book, section) ==
    {i \in 1..Len(threads) :
        threads[i].book = book /\ threads[i].section = section}

HasTriple(reactor, target, type) ==
    \E r \in Range(reactions) : /\ r.reactor = reactor
                                /\ r.targetCommentId = target
                                /\ r.type = type

UniqueTriples ==
    \A i, j \in 1..Len(reactions) :
        (/\ reactions[i].reactor = reactions[j].reactor
         /\ reactions[i].targetCommentId = reactions[j].targetCommentId
         /\ reactions[i].type = reactions[j].type) => i = j

DeleteSucceeded == ret.op = "deleteComment" /\ ret.error = NoError

\* ------------------------------------------------------------------------
\* Claims
\* ------------------------------------------------------------------------

\* C1: a deleteComment issued by the target's author succeeds and removes
\* exactly the target and its transitive replies (1 + N comments) and the
\* reactions that target one of them; every other comment and reaction
\* stays, in place.
C1_CascadingDelete ==
    [][(/\ ret'.op = "deleteComment"
        /\ ret'.args.target \in CommentIds
        /\ CommentById(ret'.args.target).author = ret'.args.requestor)
       => LET sub == Subtree(ret'.args.target)
          IN /\ ret'.error = NoError
             /\ comments' = SelectSeq(comments, LAMBDA c : c._id \notin sub)
             /\ reactions' = SelectSeq(reactions,
                                LAMBDA r : r.targetCommentId \notin sub)
             /\ Len(comments) - Len(comments') = Cardinality(sub)]_vars

\* A successful delete took a comment together with a later-created comment
\* below it, while another comment of the thread stayed.
C1_Witness ==
    /\ DeleteSucceeded
    /\ \E d \in deleted : d > ret.args.target
    /\ ret.args.target \in deleted
    /\ comments # <<>>

\* C2: there is at most one Thread per (book, section); after a postComment
\* the pair has exactly one, whether it was created or reused.
C2_OneThreadPerPair ==
    /\ \A b \in Books, s \in Sections : Cardinality(ThreadsOf(b, s)) <= 1
    /\ ret.op = "postComment"
          => Cardinality(ThreadsOf(ret.args.book, ret.args.section)) = 1

\* A postComment reused the only thread after deletions had emptied it.
C2_Witness ==
    /\ ret.op = "postComment"
    /\ Len(threads) = 1
    /\ deleted # {}
    /\ threads[1].topLevelCommentIds = <<ret.result>>
    /\ threads[1]._id < ret.result - 1

\* C3: a deleteComment by someone other than the target's author fails with
\* the not-the-author error and changes no thread, comment or reaction.
C3_ForbiddenLeavesState ==
    [][(/\ ret'.op = "deleteComment"
        /\ ret'.args.target \in CommentIds
        /\ CommentById(ret'.args.target).author # ret'.args.requestor)
       => /\ ret'.error = ErrNotAuthor
          /\ UNCHANGED <<threads, comments, reactions>>]_vars

\* A refused delete whose target has a reply and a reaction.
C3_Witness ==
    /\ ret.op = "deleteComment"
    /\ ret.error = ErrNotAuthor
    /\ \E c \in Range(comments) : c.parentId = ret.args.target
    /\ \E r \in Range(reactions) : r.targetCommentId = ret.args.target

\* C4: a react on an existing target fails with the already-reacted error
\* and changes nothing when the same (reactor, target, type) exists, and
\* otherwise succeeds and adds exactly that reaction; no two reactions ever
\* share a triple.
C4_DuplicateReaction ==
    [][(ret'.op = "react" /\ ret'.args.target \in CommentIds)
       => LET a == ret'.args
          IN /\ HasTriple(a.reactor, a.target, a.type)
                  => /\ ret'.error = ErrAlreadyReacted
                     /\ UNCHANGED <<threads, comments, reactions>>
             /\ ~HasTriple(a.reactor, a.target, a.type)
                  => /\ ret'.error = NoError
                     /\ reactions' = Append(reactions,
                           [_id |-> ret'.result, reactor |-> a.reactor,
                            targetCommentId |-> a.target, type |-> a.type])
             /\ UniqueTriples']_vars

\* A duplicate react was refused while the same reactor holds a reaction of
\* another type on the same target.
C4_Witness ==
    /\ ret.op = "react"
    /\ ret.error = ErrAlreadyReacted
    /\ \E r \in Range(reactions) : /\ r.reactor = ret.args.reactor
                                   /\ r.targetCommentId = ret.args.target
                                   /\ r.type # ret.args.type
    /\ Len(CommentById(ret.args.target).reactionIds) = 2

\* C5: every comment with a parentId has an existing parent with the same
\* threadId, and a successful reply created a comment whose parentId is the
\* given parent.
C5_ReplySameThread ==
    /\ \A c \in Range(comments) :
          c.parentId # NoParent
             => /\ c.parentId \in CommentIds
                /\ CommentById(c.parentId).threadId = c.threadId
    /\ (ret.op = "reply" /\ ret.error = NoError)
          => /\ ret.result \in CommentIds
             /\ CommentById(ret.result).parentId = ret.args.parent

\* A reply to a reply.
C5_Witness ==
    /\ ret.op = "reply"
    /\ ret.error = NoError
    /\ CommentById(ret.args.parent).parentId # NoParent

\* C6: reply, react and deleteComment on an id that is not an existing
\* comment return their not-found error and change no thread, comment or
\* reaction.
C6_NotFoundLeavesState ==
    [][/\ (ret'.op = "reply" /\ ret'.args.parent \notin CommentIds)
            => /\ ret'.error = ErrParentNotFound
               /\ UNCHANGED <<threads, comments, reactions>>
       /\ (ret'.op = "react" /\ ret'.args.target \notin CommentIds)
            => /\ ret'.error = ErrTargetNotFound
               /\ UNCHANGED <<threads, comments, reactions>>
       /\ (ret'.op = "deleteComment" /\ ret'.args.target \notin CommentIds)
            => /\ ret'.error = ErrCommentNotFound
               /\ UNCHANGED <<threads, comments, reactions>>]_vars

\* A react on a comment that had existed and was deleted.
C6_Witness ==
    /\ ret.op = "react"
    /\ ret.error = ErrTargetNotFound
    /\ ret.args.target \in deleted

\* C7: an id removed by a successful deleteComment never resolves again:
\* _getComment returns null for it in every later state.
C7_DeletedStaysAbsent ==
    \A id \in deleted : _getComment(id) = Null

\* A comment was created after a delete that had removed a comment and
\* its reply.
C7_Witness ==
    /\ ret.op \in {"postComment", "reply"}
    /\ ret.error = NoError
    /\ Cardinality(deleted) >= 2
    /\ \A d \in deleted : d < ret.result

\* C8: a successful deleteComment of a top-level comment removes exactly the
\* target's id from its thread's top-level list, keeping every other id in
\* order and every other thread as it was; a successful deleteComment of a
\* reply changes no thread.
C8_TopLevelListAfterDelete ==
    [][(/\ ret'.op = "deleteComment"
        /\ ret'.error = NoError
        /\ ret'.args.target \in CommentIds)
       => LET t == ret'.args.target
              c == CommentById(t)
          IN IF c.parentId = NoParent
             THEN \E i \in 1..Len(threads) :
                     LET old == threads[i].topLevelCommentIds
                         new == SelectSeq(old, LAMBDA x : x # t)
                     IN /\ threads[i]._id = c.threadId
                        /\ t \in Range(old)
                        /\ Len(new) = Len(old) - 1
                        /\ threads' =
                              [threads EXCEPT ![i].topLevelCommentIds = new]
             ELSE threads' = threads]_vars

\* The first comment of a thread was deleted while another top-level comment
\* of that thread stays listed.
C8_Witness ==
    /\ DeleteSucceeded
    /\ \E i \in 1..Len(threads) :
          /\ ret.args.target = threads[i]._id + 1
          /\ threads[i].topLevelCommentIds # <<>>

\* C9: no step removes a Thread: a pair that _getThreadByBookAndSection
\* resolves keeps resolving to the same thread, and the thread whose last
\* top-level comment is deleted stays, with an empty top-level list.
C9_ThreadsPersist ==
    [][/\ \A b \in Books, s \in Sections :
             _getThreadByBookAndSection(b, s) # Null
                => /\ _getThreadByBookAndSection(b, s)' # Null
                   /\ _getThreadByBookAndSection(b, s)'._id =
                         _getThreadByBookAndSection(b, s)._id
       /\ Len(threads') >= Len(threads)
       /\ \A i \in 1..Len(threads) :
             (/\ ret'.op = "deleteComment"
              /\ ret'.error = NoError
              /\ threads[i].topLevelCommentIds = <<ret'.args.target>>)
                => /\ threads'[i]._id = threads[i]._id
                   /\ threads'[i].topLevelCommentIds = <<>>]_vars

\* The only top-level comment of a thread was deleted and the thread is
\* still there, empty.
C9_Witness ==
    /\ DeleteSucceeded
    /\ \E b \in Books, s \in Sections :
          LET t == _getThreadByBookAndSection(b, s)
          IN /\ t # Null
             /\ t.topLevelCommentIds = <<>>
             /\ ret.args.target = t._id + 1
             /\ nextId = t._id + 2

\* C10: a successful reply appends exactly one comment, the new one, and
\* changes no thread, no other comment (the parent included) and no
\* reaction.
C10_ReplyFrame ==
    [][(ret'.op = "reply" /\ ret'.error = NoError)
       => /\ threads' = threads
          /\ reactions' = reactions
          /\ Len(comments') = Len(comments) + 1
          /\ SubSeq(comments', 1, Len(comments)) = comments
          /\ comments'[Len(comments')]._id = ret'.result
          /\ ret'.result \notin CommentIds]_vars

\* A reply to a top-level comment that carries a reaction.
C10_Witness ==
    /\ ret.op = "reply"
    /\ ret.error = NoError
    /\ CommentById(ret.args.parent).parentId = NoParent
    /\ CommentById(ret.args.parent).reactionIds # <<>>

\* C11: a reaction stays as it is, in place, through every step; it goes
\* only in a successful deleteComment step whose target's subtree contains
\* the reaction's target comment. postComment, reply and failed calls leave
\* the reactions as they are, a successful react only appends.
C11_ReactionLifecycle ==
    [][/\ \A i \in 1..Len(reactions) :
             \/ reactions[i] \in Range(reactions')
             \/ /\ ret'.op = "deleteComment"
                /\ ret'.error = NoError
                /\ reactions[i].targetCommentId
                      \in Subtree(ret'.args.target)
                /\ \A q \in Range(reactions') : q._id # reactions[i]._id
       /\ (ret'.op \in {"postComment", "reply"} \/ ret'.error # NoError)
             => reactions' = reactions
       /\ ret'.op = "react"
             => SubSeq(reactions', 1, Len(reactions)) = reactions]_vars

\* A reaction is in place after a successful deleteComment of another
\* comment.
C11_Witness ==
    /\ DeleteSucceeded
    /\ reactions # <<>>

\* C12: _getThreadComments returns, once each, exactly the existing comments
\* whose threadId is the pair's thread, the replies below every listed
\* top-level comment included and no deleted comment; it returns the empty
\* list for a pair without thread, and the call changes no collection.
C12_ThreadComments ==
    [][ret'.op = "_getThreadComments"
       => LET b == ret'.args.book
              s == ret'.args.section
              res == ret'.result
              ids == {res[i]._id : i \in 1..Len(res)}
          IN /\ UNCHANGED <<threads, comments, reactions>>
             /\ ThreadsOf(b, s) = {} => res = <<>>
             /\ Range(res) =
                   {c \in Range(comments) :
                       \E i \in ThreadsOf(b, s) :
                          c.threadId = threads[i]._id}
             /\ Len(res) = Cardinality(ids)
             /\ \A i \in ThreadsOf(b, s) :
                   \A top \in Range(threads[i].topLevelCommentIds) :
                      Subtree(top) \subseteq ids
             /\ ids \cap deleted = {}]_vars

\* The query returned a reply after a cascade delete had removed comments.
C12_Witness ==
    /\ ret.op = "_getThreadComments"
    /\ deleted # {}
    /\ \E i \in 1..Len(ret.result) : ret.result[i].parentId # NoParent

\* ========================================================================
\* Matching concept (src/design/concepts/Matching/Matching.md)
\*
\* Two collections, matches and finishedBooks. The finishedAt date of a
\* FinishedBook is written once and never read; it is left out. Here ret
\* records the operation, its error and its result, not its arguments; the
\* properties name the invocation by its action.
\* ========================================================================

\* Number of identifiers freshID hands out in the Matching specification.
MaxMatchIds == 4

MatchUsers == {"alice", "bob", "carol"}
MatchBooks == {"Dune"}

\* The match ids given to acceptMatch, rejectMatch and explainMatch: those of
\* the existing matches and one that freshID never issues (a lookup by _id
\* tells no other ids apart).
MatchIds == {matches[i]._id : i \in 1..Len(matches)} \cup {MaxMatchIds + 1}

\* The explanation field is optional: NoExplanation stands for its absence.
NoExplanation == <<>>

ErrNotFinished == "User has not finished book."
ErrAlreadyFinished == "User already recorded finishing book."
ErrMatchNotFound == "Match not found."
ErrNotPartOfMatch == "User is not part of match."
ErrNotPending == "Match is not in 'pending' status."
ErrAlreadyRejected == "Match is already 'rejected'."
ErrNotAccepted == "Match is not in 'accepted' status."

\* this.finishedBooks.findOne({ user, book })
findFinishedBook(user, book) ==
    firstOrNull(SelectSeq(finishedBooks,
                          LAMBDA f : f.user = user /\ f.book = book))

\* this.matches.findOne({ _id: matchId })
findMatch(matchId) ==
    firstOrNull(SelectSeq(matches, LAMBDA m : m._id = matchId))

\* Variant of coFinishers: the filter does not exclude the owner.
coFinishersWithOwner(owner, book) ==
    SelectSeq(finishedBooks, LAMBDA f : f.book = book)

\* this.finishedBooks.find({ book, user: { $ne: owner } }).toArray()
coFinishers(owner, book) ==
    SelectSeq(finishedBooks, LAMBDA f : f.book = book /\ f.user # owner)

\* this.matches.find({ book, $or: [{ userA: owner }, { userB: owner }] })
existingMatchesForBook(owner, book) ==
    SelectSeq(matches,
              LAMBDA m : m.book = book /\ (m.userA = owner \/ m.userB = owner))

\* Variant of alreadyMatched: only matches that the owner generated count.
alreadyMatchedAsUserA(existing, owner, otherUser) ==
    \E i \in 1..Len(existing) :
        existing[i].userA = owner /\ existing[i].userB = otherUser

\* existingMatchesForBook.some(match => either direction)
alreadyMatched(existing, owner, otherUser) ==
    \E i \in 1..Len(existing) :
        \/ existing[i].userA = owner /\ existing[i].userB = otherUser
        \/ existing[i].userA = otherUser /\ existing[i].userB = owner

\* The co-finishers the loop of generateMatches creates a match for, in the
\* order of the loop.
unmatchedCoFinishers(owner, book) ==
    SelectSeq(coFinishers(owner, book),
              LAMBDA f : ~alreadyMatched(existingMatchesForBook(owner, book),
                                         owner, f.user))

\* newMatch = { _id: freshID(), userA: owner, userB: otherUser, book,
\*              status: "pending" }
newMatch(id, owner, otherUser, book) ==
    [_id |-> id, userA |-> owner, userB |-> otherUser, book |-> book,
     status |-> "pending", explanation |-> NoExplanation]

\* The newMatches array after the loop: the k-th new match takes the k-th
\* fresh identifier.
newMatches(owner, book) ==
    LET todo == unmatchedCoFinishers(owner, book)
    IN [k \in 1..Len(todo) |->
           newMatch(freshID(k - 1), owner, todo[k].user, book)]

\* this.matches.updateOne({ _id: matchId }, { $set: { status } })
setStatus(matchId, status) ==
    LET i == firstIndex(matches, matchId)
    IN IF i = 0 THEN matches ELSE [matches EXCEPT ![i].status = status]

\* this.matches.updateOne({ _id: matchId }, { $set: { explanation } })
setExplanation(matchId, text) ==
    LET i == firstIndex(matches, matchId)
    IN IF i = 0 THEN matches ELSE [matches EXCEPT ![i].explanation = text]

\* Variant of acceptError: any match that is not accepted can be accepted.
acceptErrorUnlessAccepted(match, owner) ==
    IF match = Null THEN ErrMatchNotFound
    ELSE IF match.userA # owner /\ match.userB # owner THEN ErrNotPartOfMatch
    ELSE IF match.status = "accepted" THEN ErrNotPending
    ELSE NoError

\* The early returns of acceptMatch
acceptError(match, owner) ==
    IF match = Null THEN ErrMatchNotFound
    ELSE IF match.userA # owner /\ match.userB # owner THEN ErrNotPartOfMatch
    ELSE IF match.status # "pending" THEN ErrNotPending
    ELSE NoError

\* The early returns of rejectMatch
rejectError(match, owner) ==
    IF match = Null THEN ErrMatchNotFound
    ELSE IF match.userA # owner /\ match.userB # owner THEN ErrNotPartOfMatch
    ELSE IF match.status = "rejected" THEN ErrAlreadyRejected
    ELSE NoError

\* Variant of explainError: the requester is not checked.
explainErrorAnyRequester(match, requester) ==
    IF match = Null THEN ErrMatchNotFound
    ELSE IF match.status # "accepted" THEN ErrNotAccepted
    ELSE NoError

\* The early returns of explainMatch
explainError(match, requester) ==
    IF match = Null THEN ErrMatchNotFound
    ELSE IF match.userA # requester /\ match.userB # requester
         THEN ErrNotPartOfMatch
    ELSE IF match.status # "accepted" THEN ErrNotAccepted
    ELSE NoError

\* Variant of explanationText: the text is generated anew on every call.
explanationTextFresh(match, requester) ==
    LET otherUser == IF match.userA = requester THEN match.userB
                     ELSE match.userA
    IN <<"You and", otherUser, "both recently finished", match.book>>

\* explanationText = match.explanation || `You and ${otherUser} both ...`
explanationText(match, requester) ==
    LET otherUser == IF match.userA = requester THEN match.userB
                     ELSE match.userA
    IN IF match.explanation # NoExplanation THEN match.explanation
       ELSE <<"You and", otherUser, "both recently finished", match.book>>

_addFinishedBook(user, book) ==
    LET existing == findFinishedBook(user, book)
    IN IF existing # Null
       THEN /\ ret' = [op |-> "_addFinishedBook",
                       error |-> ErrAlreadyFinished, result |-> 0]
            /\ UNCHANGED <<matches, finishedBooks, nextId, otherThanMatching>>
       ELSE /\ freshID(0) <= MaxMatchIds
            /\ finishedBooks' = Append(finishedBooks,
                                   [_id |-> freshID(0), user |-> user,
                                    book |-> book])
            /\ nextId' = nextId + 1
            /\ ret' = [op |-> "_addFinishedBook",
                       error |-> NoError, result |-> 0]
            /\ UNCHANGED <<matches, otherThanMatching>>

generateMatches(owner, book) ==
    LET ownerFinishedBook == findFinishedBook(owner, book)
        suggested == newMatches(owner, book)
    IN IF ownerFinishedBook = Null
       THEN /\ ret' = [op |-> "generateMatches",
                       error |-> ErrNotFinished, result |-> <<>>]
            /\ UNCHANGED <<matches, finishedBooks, nextId, otherThanMatching>>
       ELSE /\ nextId + Len(suggested) - 1 <= MaxMatchIds
            /\ matches' = matches \o suggested
            /\ nextId' = nextId + Len(suggested)
            /\ ret' = [op |-> "generateMatches",
                       error |-> NoError, result |-> suggested]
            /\ UNCHANGED <<finishedBooks, otherThanMatching>>

acceptMatch(owner, matchId) ==
    LET match == findMatch(matchId)
        error == acceptError(match, owner)
    IN /\ ret' = [op |-> "acceptMatch", error |-> error, result |-> 0]
       /\ matches' = IF error = NoError THEN setStatus(matchId, "accepted")
                     ELSE matches
       /\ UNCHANGED <<finishedBooks, nextId, otherThanMatching>>

rejectMatch(owner, matchId) ==
    LET match == findMatch(matchId)
        error == rejectError(match, owner)
    IN /\ ret' = [op |-> "rejectMatch", error |-> error, result |-> 0]
       /\ matches' = IF error = NoError THEN setStatus(matchId, "rejected")
                     ELSE matches
       /\ UNCHANGED <<finishedBooks, nextId, otherThanMatching>>

explainMatch(requester, matchId) ==
    LET match == findMatch(matchId)
        error == explainError(match, requester)
    IN IF error # NoError
       THEN /\ ret' = [op |-> "explainMatch",
                       error |-> error, result |-> NoExplanation]
            /\ UNCHANGED <<matches, finishedBooks, nextId, otherThanMatching>>
       ELSE /\ matches' = setExplanation(matchId,
                                         explanationText(match, requester))
            /\ ret' = [op |-> "explainMatch",
                       error |-> NoError,
                       result |-> explanationText(match, requester)]
            /\ UNCHANGED <<finishedBooks, nextId, otherThanMatching>>

NextMatching ==
    \/ \E user \in MatchUsers, book \in MatchBooks :
          _addFinishedBook(user, book)
    \/ \E owner \in MatchUsers, book \in MatchBooks :
          generateMatches(owner, book)
    \/ \E owner \in MatchUsers, matchId \in MatchIds :
          acceptMatch(owner, matchId)
    \/ \E owner \in MatchUsers, matchId \in MatchIds :
          rejectMatch(owner, matchId)
    \/ \E requester \in MatchUsers, matchId \in MatchIds :
          explainMatch(requester, matchId)

SpecMatching == Init /\ [][NextMatching]_vars

\* ------------------------------------------------------------------------
\* Vocabulary of the Matching properties
\* ------------------------------------------------------------------------

MatchIdSet == {m._id : m \in Range(matches)}

MatchById(id) == CHOOSE m \in Range(matches) : m._id = id

IsParticipant(u, id) ==
    id \in MatchIdSet /\ u \in {MatchById(id).userA, MatchById(id).userB}

HasFinished(u, b) ==
    \E f \in Range(finishedBooks) : f.user = u /\ f.book = b

\* A match of any status exists for the unordered pair {u, v} and the book.
Paired(u, v, b) ==
    \E m \in Range(matches) : m.book = b /\ {m.userA, m.userB} = {u, v}

StatusMoves ==
    {<<"pending", "accepted">>, <<"pending", "rejected">>,
     <<"accepted", "rejected">>}

OnePerPairAndBook ==
    \A i, j \in 1..Len(matches) :
        (/\ matches[i].book = matches[j].book
         /\ {matches[i].userA, matches[i].userB} =
               {matches[j].userA, matches[j].userB}) => i = j

ExplainedOnlyIfAccepted ==
    \A m \in Range(matches) :
        m.explanation # NoExplanation => m.status \in {"accepted", "rejected"}

\* ------------------------------------------------------------------------
\* Claims on Matching
\* ------------------------------------------------------------------------

\* C13: a match keeps its place and identity and its status changes only
\* pending -> accepted, pending -> rejected or accepted -> rejected;
\* acceptMatch by a participant succeeds exactly on a pending match,
\* rejectMatch by a participant exactly on a pending or accepted match, and
\* on a rejected match both fail and no step changes the status.
C13_StatusMoves ==
    [][/\ Len(matches') >= Len(matches)
       /\ \A i \in 1..Len(matches) :
             /\ matches'[i]._id = matches[i]._id
             /\ \/ matches'[i].status = matches[i].status
                \/ <<matches[i].status, matches'[i].status>> \in StatusMoves
       /\ ret'.op \in {"acceptMatch", "rejectMatch"}
             => \A u \in MatchUsers, id \in MatchIdSet :
                   /\ (acceptMatch(u, id) /\ IsParticipant(u, id))
                         => IF MatchById(id).status = "pending"
                            THEN /\ ret'.error = NoError
                                 /\ MatchById(id)'.status = "accepted"
                            ELSE /\ ret'.error = ErrNotPending
                                 /\ matches' = matches
                   /\ (rejectMatch(u, id) /\ IsParticipant(u, id))
                         => IF MatchById(id).status # "rejected"
                            THEN /\ ret'.error = NoError
                                 /\ MatchById(id)'.status = "rejected"
                            ELSE /\ ret'.error = ErrAlreadyRejected
                                 /\ matches' = matches
                   /\ ((acceptMatch(u, id) \/ rejectMatch(u, id))
                          /\ MatchById(id).status = "rejected")
                         => ret'.error # NoError]_vars

\* acceptMatch was refused on a match that went from pending to accepted
\* (it carries an explanation) and then to rejected.
C13_Witness ==
    /\ ret.op = "acceptMatch"
    /\ ret.error = ErrNotPending
    /\ \A m \in Range(matches) :
          m.status = "rejected" /\ m.explanation # NoExplanation
    /\ matches # <<>>

\* C14: no two matches share the unordered pair of users and the book; a
\* successful generateMatches creates matches only for pairs that had no
\* match of any status, leaves every co-finisher of the owner paired with
\* the owner, and creates and returns nothing when all of them were paired
\* already, whoever generated those matches and whatever their status.
C14_OneMatchPerPair ==
    [][/\ OnePerPairAndBook'
       /\ \A o \in MatchUsers, b \in MatchBooks :
             (ret'.op = "generateMatches" /\ ret'.error = NoError
                 /\ generateMatches(o, b))
                => /\ \A k \in 1..Len(ret'.result) :
                         ~Paired(o, ret'.result[k].userB, b)
                   /\ \A u \in MatchUsers \ {o} :
                         HasFinished(u, b) => Paired(o, u, b)'
                   /\ (\A u \in MatchUsers \ {o} :
                          HasFinished(u, b) => Paired(o, u, b))
                         => /\ ret'.result = <<>>
                            /\ matches' = matches]_vars

\* A generateMatches returned nothing while the only match, generated
\* earlier, is rejected.
C14_Witness ==
    /\ ret.op = "generateMatches"
    /\ ret.error = NoError
    /\ ret.result = <<>>
    /\ Len(matches) = 1
    /\ matches[1].status = "rejected"

C16_MatchErrors ==
    [][\A u \in MatchUsers, id \in MatchIds :
          /\ (/\ ret'.op \in {"acceptMatch", "rejectMatch", "explainMatch"}
              /\ ~IsParticipant(u, id)
              /\ (acceptMatch(u, id) \/ rejectMatch(u, id)
                     \/ explainMatch(u, id)))
                => /\ ret'.error = IF id \in MatchIdSet
                                   THEN ErrNotPartOfMatch
                                   ELSE ErrMatchNotFound
                   /\ matches' = matches
          /\ (/\ ret'.op \in {"acceptMatch", "rejectMatch"}
              /\ IsParticipant(u, id)
              /\ MatchById(id).status = "pending"
              /\ (acceptMatch(u, id) \/ rejectMatch(u, id)))
                => ret'.error = NoError]_vars

\* A user outside an accepted match was refused.
C16_Witness ==
    /\ ret.error = ErrNotPartOfMatch
    /\ ret.op = "explainMatch"
    /\ \E m \in Range(matches) : m.status = "accepted"

MaxChatIds == 3

ChatUsers == {"alice", "bob", "carol"}
Bodies == {"hi"}
\* Arrays startChat receives: as long as there are users at most, repeated
\* users allowed, users in the order of ChatUserOrder.
ChatUserOrder == <<"alice", "bob", "carol">>
ChatUserRank(u) == CHOOSE k \in 1..Len(ChatUserOrder) : ChatUserOrder[k] = u
ParticipantLists ==
    {p \in UNION {[1..n -> ChatUsers] : n \in 0..Cardinality(ChatUsers)} :
        \A i \in 1..Len(p) : \A j \in i..Len(p) :
            ChatUserRank(p[i]) <= ChatUserRank(p[j])}
\* Chat ids the actions are invoked with: every chat that exists and one id
\* that no chat has.
ChatIds == {chats[i]._id : i \in 1..Len(chats)} \cup {MaxChatIds + 1}

\* The error texts, without the ids and names they embed.
ErrTooFewParticipants == "Chat must have at least 2 unique participants."
ErrCreatorNotParticipant == "Creator must be one of the participants."
ErrBlockBetween == "Cannot start chat: A block exists between participants."
ErrChatNotFound == "Chat not found."
ErrAuthorNotParticipant == "Author is not a participant in chat."
ErrLeaverNotParticipant == "User is not a participant in chat."
ErrBlockYourself == "Cannot block yourself."
ErrAlreadyBlocked == "User has already blocked target."

\* Array.from(new Set(participants)): first occurrences, in array order.
RECURSIVE uniqueParticipants(_)
uniqueParticipants(participants) ==
    IF Len(participants) = 0 THEN <<>>
    ELSE LET front == uniqueParticipants(
                          SubSeq(participants, 1, Len(participants) - 1))
             last == participants[Len(participants)]
         IN IF last \in Range(front) THEN front ELSE Append(front, last)

\* Variant of existingBlockBetween: only the direction u1 blocked u2.
existingBlockOneWay(u1, u2) ==
    firstOrNull(SelectSeq(blocks,
        LAMBDA b : b.blocker = u1 /\ b.blocked = u2))

\* blocks.findOne({$or: [{blocker: u1, blocked: u2},
\*                       {blocker: u2, blocked: u1}]})
existingBlockBetween(u1, u2) ==
    firstOrNull(SelectSeq(blocks,
        LAMBDA b : \/ b.blocker = u1 /\ b.blocked = u2
                   \/ b.blocker = u2 /\ b.blocked = u1))

\* The nested loop of startChat over the pairs i < j found a block.
blockAmong(unique) ==
    \E i \in 1..Len(unique) : \E j \in (i + 1)..Len(unique) :
        existingBlockBetween(unique[i], unique[j]) # Null

startChatError(creator, participants) ==
    LET unique == uniqueParticipants(participants)
    IN IF Len(unique) < 2 THEN ErrTooFewParticipants
       ELSE IF creator \notin Range(unique) THEN ErrCreatorNotParticipant
       ELSE IF blockAmong(unique) THEN ErrBlockBetween
       ELSE NoError

\* chats.findOne({_id: chat})
findChat(chat) ==
    firstOrNull(SelectSeq(chats, LAMBDA c : c._id = chat))

\* blocks.findOne({blocker: requester, blocked: target})
findBlock(requester, target) ==
    firstOrNull(SelectSeq(blocks,
        LAMBDA b : b.blocker = requester /\ b.blocked = target))

\* {$push: {messages: messageId}}
pushMessage(chatDoc, messageId) ==
    [chatDoc EXCEPT !.messages = Append(@, messageId)]

\* {$pull: {participants: user}}
pullParticipant(chatDoc, user) ==
    [chatDoc EXCEPT !.participants = SelectSeq(@, LAMBDA p : p # user)]

\* chats.updateOne({_id: chat}, ...): the first chat with that id becomes doc.
replaceChat(chat, doc) ==
    [i \in 1..Len(chats) |-> IF i = firstIndex(chats, chat) THEN doc ELSE chats[i]]

\* Variant of sendMessageError: the author is not looked up among the
\* participants.
sendMessageErrorAnyAuthor(existingChat, author) ==
    IF existingChat = Null THEN ErrChatNotFound
    ELSE NoError

sendMessageError(existingChat, author) ==
    IF existingChat = Null THEN ErrChatNotFound
    ELSE IF author \notin Range(existingChat.participants)
         THEN ErrAuthorNotParticipant
    ELSE NoError

\* Variant of leaveChatError: the leaver is not looked up among the
\* participants.
leaveChatErrorAnyLeaver(existingChat, leaver) ==
    IF existingChat = Null THEN ErrChatNotFound
    ELSE NoError

leaveChatError(existingChat, leaver) ==
    IF existingChat = Null THEN ErrChatNotFound
    ELSE IF leaver \notin Range(existingChat.participants)
         THEN ErrLeaverNotParticipant
    ELSE NoError

blockUserError(requester, target) ==
    IF requester = target THEN ErrBlockYourself
    ELSE IF findBlock(requester, target) # Null THEN ErrAlreadyBlocked
    ELSE NoError

\* Variant of containsBoth: chats of the requester, with or without target.
containsRequester(chatDoc, requester, target) ==
    requester \in Range(chatDoc.participants)

\* {participants: {$all: [requester, target]}}
containsBoth(chatDoc, requester, target) ==
    {requester, target} \subseteq Range(chatDoc.participants)

\* Variant of removeFromSharedChats: no chat is updated.
removeFromNoChats(requester, target) ==
    chats

\* The loop of blockUser over chatsToUpdate: each chat found loses requester.
removeFromSharedChats(requester, target) ==
    [i \in 1..Len(chats) |->
        IF containsBoth(chats[i], requester, target)
        THEN pullParticipant(chats[i], requester)
        ELSE chats[i]]

startChat(creator, participants) ==
    LET error == startChatError(creator, participants)
        chatId == freshID(0)
    IN IF error # NoError
       THEN /\ ret' = [op |-> "startChat", error |-> error, result |-> 0]
            /\ UNCHANGED <<messagingVars, nextId, otherThanMessaging>>
       ELSE /\ chatId <= MaxChatIds
            /\ chats' = Append(chats,
                           [_id |-> chatId,
                            participants |-> uniqueParticipants(participants),
                            messages |-> <<>>])
            /\ nextId' = nextId + 1
            /\ ret' = [op |-> "startChat", error |-> NoError,
                       result |-> chatId]
            /\ UNCHANGED <<messages, blocks, now, removedByBlock, otherThanMessaging>>

\* new Date() reads a clock that has stood still or moved on since the
\* previous message.
sendMessage(chat, author, body) ==
    LET existingChat == findChat(chat)
        error == sendMessageError(existingChat, author)
        messageId == freshID(0)
    IN IF error # NoError
       THEN /\ ret' = [op |-> "sendMessage", error |-> error, result |-> 0]
            /\ UNCHANGED <<messagingVars, nextId, otherThanMessaging>>
       ELSE /\ messageId <= MaxChatIds
            /\ \E timestamp \in {now, now + 1} :
                  /\ now' = timestamp
                  /\ messages' = Append(messages,
                                    [_id |-> messageId, author |-> author,
                                     body |-> body, timestamp |-> timestamp])
            /\ chats' = replaceChat(chat, pushMessage(existingChat, messageId))
            /\ nextId' = nextId + 1
            /\ ret' = [op |-> "sendMessage", error |-> NoError,
                       result |-> messageId]
            /\ UNCHANGED <<blocks, removedByBlock, otherThanMessaging>>

leaveChat(chat, leaver) ==
    LET existingChat == findChat(chat)
        error == leaveChatError(existingChat, leaver)
    IN IF error # NoError
       THEN /\ ret' = [op |-> "leaveChat", error |-> error, result |-> 0]
            /\ UNCHANGED <<messagingVars, nextId, otherThanMessaging>>
       ELSE /\ chats' = replaceChat(chat, pullParticipant(existingChat, leaver))
            /\ ret' = [op |-> "leaveChat", error |-> NoError, result |-> 0]
            /\ UNCHANGED <<messages, blocks, now, removedByBlock, nextId,
                           otherThanMessaging>>

blockUser(requester, target) ==
    LET error == blockUserError(requester, target)
        blockId == freshID(0)
    IN IF error # NoError
       THEN /\ ret' = [op |-> "blockUser", error |-> error, result |-> 0]
            /\ UNCHANGED <<messagingVars, nextId, otherThanMessaging>>
       ELSE /\ blockId <= MaxChatIds
            /\ blocks' = Append(blocks,
                            [_id |-> blockId, blocker |-> requester,
                             blocked |-> target])
            /\ chats' = removeFromSharedChats(requester, target)
            /\ removedByBlock' = removedByBlock \cup
                  {<<chats[i]._id, requester>> :
                      i \in {j \in 1..Len(chats) :
                                containsBoth(chats[j], requester, target)}}
            /\ nextId' = nextId + 1
            /\ ret' = [op |-> "blockUser", error |-> NoError, result |-> 0]
            /\ UNCHANGED <<messages, now, otherThanMessaging>>

\* messages.find({_id: {$in: chatDoc.messages}}): the documents of the chat,
\* in the order the collection holds them.
messageDocsOf(chatDoc) ==
    SelectSeq(messages, LAMBDA m : m._id \in Range(chatDoc.messages))

\* .sort({timestamp: 1}): every arrangement of the documents with ascending
\* timestamps; the store may return documents with equal timestamps in any
\* order.
sortByTimestamp(docs) ==
    LET n == Len(docs)
        orders == {f \in [1..n -> 1..n] :
                      \A i \in 1..n : \A j \in 1..n : f[i] = f[j] => i = j}
    IN {[i \in 1..n |-> docs[f[i]]] :
           f \in {g \in orders :
                     \A i \in 1..n : \A j \in i..n :
                         docs[g[i]].timestamp <= docs[g[j]].timestamp}}

_getChatMessages(chat) ==
    LET chatDoc == findChat(chat)
    IN /\ IF chatDoc = Null
          THEN ret' = [op |-> "_getChatMessages", error |-> ErrChatNotFound,
                       result |-> <<>>]
          ELSE \E messageDocs \in sortByTimestamp(messageDocsOf(chatDoc)) :
                  ret' = [op |-> "_getChatMessages", error |-> NoError,
                          result |-> messageDocs]
       /\ UNCHANGED <<messagingVars, nextId, otherThanMessaging>>

NextMessaging ==
    \/ \E creator \in ChatUsers, participants \in ParticipantLists :
          startChat(creator, participants)
    \/ \E chat \in ChatIds, author \in ChatUsers, body \in Bodies :
          sendMessage(chat, author, body)
    \/ \E chat \in ChatIds, leaver \in ChatUsers :
          leaveChat(chat, leaver)
    \/ \E requester \in ChatUsers, target \in ChatUsers :
          blockUser(requester, target)

SpecMessaging == Init /\ [][NextMessaging]_vars

\* The actions of the concept together with its message query.
NextChatMessages ==
    \/ NextMessaging
    \/ \E chat \in ChatIds : _getChatMessages(chat)

SpecChatMessages == Init /\ [][NextChatMessages]_vars

\* ------------------------------------------------------------------------
\* Messaging: vocabulary of the claims
\* ------------------------------------------------------------------------

ChatIdSet == {chats[i]._id : i \in 1..Len(chats)}

ChatById(id) == CHOOSE c \in Range(chats) : c._id = id

ParticipantsOf(id) == Range(ChatById(id).participants)

\* A block document names u and v, in one direction or the other.
BlockBetween(u, v) ==
    \E b \in Range(blocks) : \/ b.blocker = u /\ b.blocked = v
                             \/ b.blocker = v /\ b.blocked = u

DuplicateFree(list) ==
    \A i \in 1..Len(list) : \A j \in 1..Len(list) :
        list[i] = list[j] => i = j

\* The chats before position n are the same documents in both states.
SameChatsBefore(n) ==
    \A i \in 1..(n - 1) : chats'[i] = chats[i]

\* What startChat requires of its arguments: at least two users named, the
\* creator one of them, no block between any two of them.
MayStartChat(creator, participants) ==
    /\ Cardinality(Range(participants)) >= 2
    /\ creator \in Range(participants)
    /\ \A u \in Range(participants) : \A v \in Range(participants) \ {u} :
          ~BlockBetween(u, v)

\* C18: startChat succeeds exactly when the users named in participants are
\* at least two, the creator is one of them and no block lies between any two
\* of them; it then appends one chat with a new id, those users once each and
\* no messages; otherwise it returns an error and the chats stay as they are.
C18_StartChat ==
    /\ [](\A creator \in ChatUsers, participants \in ParticipantLists :
             MayStartChat(creator, participants)
                => startChatError(creator, participants) = NoError)
    /\ [][ret'.op = "startChat"
             => IF ret'.error = NoError
                THEN /\ Len(chats') = Len(chats) + 1
                     /\ SameChatsBefore(Len(chats'))
                     /\ LET created == chats'[Len(chats')]
                        IN /\ created._id = ret'.result
                           /\ created._id \notin ChatIdSet
                           /\ DuplicateFree(created.participants)
                           /\ created.messages = <<>>
                           /\ \A creator \in ChatUsers,
                                 participants \in ParticipantLists :
                                 startChat(creator, participants)
                                    => /\ MayStartChat(creator, participants)
                                       /\ Range(created.participants)
                                             = Range(participants)
                     /\ UNCHANGED <<messages, blocks>>
                ELSE UNCHANGED <<chats, messages, blocks>>]_vars

\* startChat created a chat of users without a block between them while a
\* block on another user was on record.
C18_Witness ==
    /\ ret.op = "startChat"
    /\ ret.error = NoError
    /\ blocks # <<>>
    /\ ret.result \in ChatIdSet
    /\ Cardinality(ParticipantsOf(ret.result)) = 2
    /\ ChatById(ret.result).messages = <<>>

\* C19: sendMessage appends one message to the chat when the chat exists and
\* the author is among its participants, and otherwise returns an error and
\* leaves chats and messages as they are; a successful leaveChat takes the
\* leaver, and a successful blockUser the requester, out of the participants;
\* and a user who is not among a chat's participants never is again.
C19_SendMessage ==
    [][/\ ret'.op = "sendMessage"
          => \A chat \in ChatIds, author \in ChatUsers, body \in Bodies :
                sendMessage(chat, author, body)
                   => IF chat \in ChatIdSet /\ author \in ParticipantsOf(chat)
                      THEN /\ ret'.error = NoError
                           /\ Len(messages') = Len(messages) + 1
                           /\ SubSeq(messages', 1, Len(messages)) = messages
                           /\ messages'[Len(messages')]._id = ret'.result
                           /\ messages'[Len(messages')].author = author
                           /\ messages'[Len(messages')].body = body
                           /\ ChatById(chat)'.messages
                                 = Append(ChatById(chat).messages, ret'.result)
                           /\ ChatById(chat)'.participants
                                 = ChatById(chat).participants
                           /\ \A c \in ChatIdSet \ {chat} :
                                 ChatById(c)' = ChatById(c)
                      ELSE /\ ret'.error # NoError
                           /\ UNCHANGED <<chats, messages>>
       /\ (ret'.op = "leaveChat" /\ ret'.error = NoError)
          => \A chat \in ChatIds, leaver \in ChatUsers :
                leaveChat(chat, leaver)
                   => /\ leaver \in ParticipantsOf(chat)
                      /\ ParticipantsOf(chat)'
                            = ParticipantsOf(chat) \ {leaver}
       /\ removedByBlock \subseteq removedByBlock'
       /\ chats' # chats
          => /\ \A pulled \in removedByBlock' :
                   pulled[2] \notin ParticipantsOf(pulled[1])'
             /\ \A c \in ChatIdSet, u \in ChatUsers :
                   u \notin ParticipantsOf(c)
                      => c \in ChatIdSet' /\ u \notin ParticipantsOf(c)']_vars

\* With one chat and no block on record: the author of the chat's message is
\* no longer a participant, the other two users are, and a sendMessage has
\* just been refused for an author who is not a participant.
C19_Witness ==
    /\ ret.op = "sendMessage"
    /\ ret.error = ErrAuthorNotParticipant
    /\ blocks = <<>>
    /\ Len(chats) = 1
    /\ Cardinality(Range(chats[1].participants)) = Cardinality(ChatUsers) - 1
    /\ Len(chats[1].messages) = 1
    /\ \E m \in Range(messages) :
          /\ m._id = chats[1].messages[1]
          /\ m.author \notin Range(chats[1].participants)

\* C20: a successful blockUser appends the block of target by requester, and
\* takes the requester, nobody else, out of each chat that holds both users;
\* every other chat, every message list and the messages stay as they are,
\* and no chat goes away.
C20_BlockUser ==
    [][\A requester \in ChatUsers, target \in ChatUsers :
          (ret'.op = "blockUser" /\ ret'.error = NoError
              /\ blockUser(requester, target))
             => /\ Len(blocks') = Len(blocks) + 1
                /\ SubSeq(blocks', 1, Len(blocks)) = blocks
                /\ blocks'[Len(blocks')].blocker = requester
                /\ blocks'[Len(blocks')].blocked = target
                /\ messages' = messages
                /\ Len(chats') = Len(chats)
                /\ \A i \in 1..Len(chats) :
                      IF {requester, target}
                            \subseteq Range(chats[i].participants)
                      THEN /\ chats'[i]._id = chats[i]._id
                           /\ chats'[i].messages = chats[i].messages
                           /\ Range(chats'[i].participants)
                                 = Range(chats[i].participants) \ {requester}
                           /\ DuplicateFree(chats'[i].participants)
                      ELSE chats'[i] = chats[i]]_vars

\* blockUser has pulled its requester from a chat in which the blocked user
\* and a third participant remain.
C20_Witness ==
    /\ ret.op = "blockUser"
    /\ ret.error = NoError
    /\ \E pulled \in removedByBlock :
          LET last == blocks[Len(blocks)]
          IN /\ last.blocker = pulled[2]
             /\ last.blocked \in ParticipantsOf(pulled[1])
             /\ pulled[2] \notin ParticipantsOf(pulled[1])
             /\ Cardinality(ParticipantsOf(pulled[1])) = 2

\* C21: leaveChat by a participant of an existing chat succeeds, however
\* few participants remain, and takes exactly the leaver out of that chat's
\* participants, keeping the chat, its message list, the other chats, the
\* messages and the blocks; on a missing chat or a user who is not a
\* participant it returns an error and changes none of them.
C21_LeaveChat ==
    [][ret'.op = "leaveChat"
          => \A chat \in ChatIds, leaver \in ChatUsers :
                leaveChat(chat, leaver)
                   => IF chat \in ChatIdSet /\ leaver \in ParticipantsOf(chat)
                      THEN /\ ret'.error = NoError
                           /\ Len(chats') = Len(chats)
                           /\ \A i \in 1..Len(chats) :
                                 IF chats[i]._id = chat
                                 THEN /\ chats'[i]._id = chat
                                      /\ chats'[i].messages = chats[i].messages
                                      /\ chats'[i].participants
                                            = SelectSeq(chats[i].participants,
                                                  LAMBDA p : p # leaver)
                                      /\ leaver \notin
                                            Range(chats'[i].participants)
                                 ELSE chats'[i] = chats[i]
                           /\ UNCHANGED <<messages, blocks>>
                      ELSE /\ ret'.error # NoError
                           /\ UNCHANGED <<chats, messages, blocks>>]_vars

\* With no block on record, a leaveChat has just succeeded on the one chat,
\* which keeps its message and has fewer than two participants left.
C21_Witness ==
    /\ ret.op = "leaveChat"
    /\ ret.error = NoError
    /\ blocks = <<>>
    /\ Len(chats) = 1
    /\ Len(chats[1].participants) < 2
    /\ Len(chats[1].messages) = 1
    /\ Len(messages) = 1

\* The message documents of a chat in the order of the chat's message list.
InSendOrder(id) ==
    [i \in 1..Len(ChatById(id).messages) |->
        CHOOSE m \in Range(messages) : m._id = ChatById(id).messages[i]]

\* C22: a successful _getChatMessages returns the messages of the chat in
\* the order in which sendMessage appended them to the chat's message list.
C22_ChatMessagesInSendOrder ==
    [][ret'.op = "_getChatMessages"
          => \A chat \in ChatIds :
                (_getChatMessages(chat) /\ ret'.error = NoError)
                   => ret'.result = InSendOrder(chat)]_vars

\* ------------------------------------------------------------------------
\* Profiles concept (src/profiles/ProfilesConcept.ts)
\* ------------------------------------------------------------------------

ProfileUsers == {"alice", "bob"}
Genres == {"fantasy"}
ProfileBooks == {"Dune", "Emma"}

\* The error texts, without the ids they embed.
ErrProfileExists == "Profile already exists."
ErrProfileNotFound == "Profile not found."
ErrGenreAlreadyIn == "Genre is already in profile."
ErrGenreNotIn == "Genre is not in profile."
ErrBookAlreadyCurrent == "Book is already in current books."
ErrBookAlreadyFinished == "Book is already in finished books."
ErrBookNotCurrent == "Book is not in current books."
ErrBookNotCurrentToFinish ==
    "Book is not in current books, cannot mark as finished."

\* profiles.findOne({_id: owner})
findProfile(owner) ==
    firstOrNull(SelectSeq(profiles, LAMBDA p : p._id = owner))

\* {$addToSet: {field: value}} on an array field
addToSet(list, value) ==
    IF value \in Range(list) THEN list ELSE Append(list, value)

\* {$pull: {field: value}} on an array field
pull(list, value) ==
    SelectSeq(list, LAMBDA x : x # value)

\* profiles.updateOne({_id: owner}, ...): the first profile of owner becomes
\* doc.
replaceProfile(owner, doc) ==
    [i \in 1..Len(profiles) |->
        IF i = firstIndex(profiles, owner) THEN doc ELSE profiles[i]]

\* Variant of createProfileError: an existing profile is not looked for.
createProfileErrorNoLookup(existingProfile) ==
    NoError

createProfileError(existingProfile) ==
    IF existingProfile # Null THEN ErrProfileExists ELSE NoError

addGenreError(profile, genre) ==
    IF profile = Null THEN ErrProfileNotFound
    ELSE IF genre \in Range(profile.genres) THEN ErrGenreAlreadyIn
    ELSE NoError

removeGenreError(profile, genre) ==
    IF profile = Null THEN ErrProfileNotFound
    ELSE IF genre \notin Range(profile.genres) THEN ErrGenreNotIn
    ELSE NoError

\* Variant of addCurrentBookError: finishedBooks is not looked at.
addCurrentBookErrorCurrentOnly(profile, book) ==
    IF profile = Null THEN ErrProfileNotFound
    ELSE IF book \in Range(profile.currentBooks) THEN ErrBookAlreadyCurrent
    ELSE NoError

addCurrentBookError(profile, book) ==
    IF profile = Null THEN ErrProfileNotFound
    ELSE IF book \in Range(profile.currentBooks) THEN ErrBookAlreadyCurrent
    ELSE IF book \in Range(profile.finishedBooks) THEN ErrBookAlreadyFinished
    ELSE NoError

removeCurrentBookError(profile, book) ==
    IF profile = Null THEN ErrProfileNotFound
    ELSE IF book \notin Range(profile.currentBooks) THEN ErrBookNotCurrent
    ELSE NoError

addFinishedBookError(profile, book) ==
    IF profile = Null THEN ErrProfileNotFound
    ELSE IF book \notin Range(profile.currentBooks)
         THEN ErrBookNotCurrentToFinish
    ELSE IF book \in Range(profile.finishedBooks) THEN ErrBookAlreadyFinished
    ELSE NoError

createProfile(owner) ==
    LET error == createProfileError(findProfile(owner))
    IN /\ ret' = [op |-> "createProfile", error |-> error, result |-> 0]
       /\ profiles' =
             IF error # NoError THEN profiles
             ELSE Append(profiles,
                     [_id |-> owner, genres |-> <<>>,
                      finishedBooks |-> <<>>, currentBooks |-> <<>>])
       /\ UNCHANGED otherThanProfiles

addGenre(owner, genre) ==
    LET profile == findProfile(owner)
        error == addGenreError(profile, genre)
    IN /\ ret' = [op |-> "addGenre", error |-> error, result |-> 0]
       /\ profiles' =
             IF error # NoError THEN profiles
             ELSE replaceProfile(owner,
                     [profile EXCEPT !.genres = addToSet(@, genre)])
       /\ UNCHANGED otherThanProfiles

removeGenre(owner, genre) ==
    LET profile == findProfile(owner)
        error == removeGenreError(profile, genre)
    IN /\ ret' = [op |-> "removeGenre", error |-> error, result |-> 0]
       /\ profiles' =
             IF error # NoError THEN profiles
             ELSE replaceProfile(owner,
                     [profile EXCEPT !.genres = pull(@, genre)])
       /\ UNCHANGED otherThanProfiles

addCurrentBook(owner, book) ==
    LET profile == findProfile(owner)
        error == addCurrentBookError(profile, book)
    IN /\ ret' = [op |-> "addCurrentBook", error |-> error, result |-> 0]
       /\ profiles' =
             IF error # NoError THEN profiles
             ELSE replaceProfile(owner,
                     [profile EXCEPT !.currentBooks = addToSet(@, book)])
       /\ UNCHANGED otherThanProfiles

removeCurrentBook(owner, book) ==
    LET profile == findProfile(owner)
        error == removeCurrentBookError(profile, book)
    IN /\ ret' = [op |-> "removeCurrentBook", error |-> error, result |-> 0]
       /\ profiles' =
             IF error # NoError THEN profiles
             ELSE replaceProfile(owner,
                     [profile EXCEPT !.currentBooks = pull(@, book)])
       /\ UNCHANGED otherThanProfiles

addFinishedBook(owner, book) ==
    LET profile == findProfile(owner)
        error == addFinishedBookError(profile, book)
    IN /\ ret' = [op |-> "addFinishedBook", error |-> error, result |-> 0]
       /\ profiles' =
             IF error # NoError THEN profiles
             ELSE replaceProfile(owner,
                     [profile EXCEPT !.finishedBooks = addToSet(@, book),
                                     !.currentBooks = pull(@, book)])
       /\ UNCHANGED otherThanProfiles

NextProfiles ==
    \/ \E owner \in ProfileUsers : createProfile(owner)
    \/ \E owner \in ProfileUsers, genre \in Genres : addGenre(owner, genre)
    \/ \E owner \in ProfileUsers, genre \in Genres : removeGenre(owner, genre)
    \/ \E owner \in ProfileUsers, book \in ProfileBooks :
          addCurrentBook(owner, book)
    \/ \E owner \in ProfileUsers, book \in ProfileBooks :
          removeCurrentBook(owner, book)
    \/ \E owner \in ProfileUsers, book \in ProfileBooks :
          addFinishedBook(owner, book)

SpecProfiles == Init /\ [][NextProfiles]_vars

\* ------------------------------------------------------------------------
\* Profiles: vocabulary of the claims
\* ------------------------------------------------------------------------

ProfileOwners == {profiles[i]._id : i \in 1..Len(profiles)}

ProfileOf(owner) == CHOOSE p \in Range(profiles) : p._id = owner

CurrentOf(owner) == Range(ProfileOf(owner).currentBooks)

FinishedOf(owner) == Range(ProfileOf(owner).finishedBooks)

\* C23: no profile ever has a book in both currentBooks and finishedBooks;
\* addCurrentBook on a profile that has the book in either list returns an
\* error and changes nothing; addFinishedBook succeeds only for a book in
\* currentBooks, and the same step takes the book out of currentBooks and
\* puts it into finishedBooks.
C23_CurrentOrFinished ==
    /\ [](\A p \in Range(profiles) :
             Range(p.currentBooks) \cap Range(p.finishedBooks) = {})
    /\ [][/\ ret'.op = "addCurrentBook"
             => \A owner \in ProfileOwners, book \in ProfileBooks :
                   (/\ addCurrentBook(owner, book)
                    /\ book \in CurrentOf(owner) \cup FinishedOf(owner))
                      => ret'.error # NoError /\ profiles' = profiles
          /\ ret'.op = "addFinishedBook"
             => \A owner \in ProfileUsers, book \in ProfileBooks :
                   addFinishedBook(owner, book)
                      => IF owner \in ProfileOwners
                            /\ book \in CurrentOf(owner)
                         THEN /\ ret'.error = NoError
                              /\ CurrentOf(owner)' = CurrentOf(owner) \ {book}
                              /\ FinishedOf(owner)'
                                    = FinishedOf(owner) \cup {book}
                         ELSE /\ ret'.error # NoError
                              /\ profiles' = profiles]_vars

\* addFinishedBook has just moved a book into the finished books of a
\* profile that is still reading another book.
C23_Witness ==
    /\ ret.op = "addFinishedBook"
    /\ ret.error = NoError
    /\ \E p \in Range(profiles) :
          /\ Len(p.finishedBooks) = 1
          /\ Len(p.currentBooks) = 1

\* C24: no owner has two profiles; createProfile for an owner who has one
\* returns the already-exists error and leaves the profiles as they are, and
\* for an owner who has none appends an empty profile; addGenre, removeGenre,
\* addCurrentBook, removeCurrentBook and addFinishedBook for an owner without
\* a profile return the not-found error and leave the profiles as they are.
C24_OneProfilePerOwner ==
    /\ [](\A i \in 1..Len(profiles) : \A j \in 1..Len(profiles) :
             profiles[i]._id = profiles[j]._id => i = j)
    /\ [][/\ ret'.op = "createProfile"
             => \A owner \in ProfileUsers :
                   createProfile(owner)
                      => IF owner \in ProfileOwners
                         THEN /\ ret'.error = ErrProfileExists
                              /\ profiles' = profiles
                         ELSE /\ ret'.error = NoError
                              /\ profiles' =
                                    Append(profiles,
                                       [_id |-> owner, genres |-> <<>>,
                                        finishedBooks |-> <<>>,
                                        currentBooks |-> <<>>])
          /\ ret'.op \in {"addGenre", "removeGenre", "addCurrentBook",
                          "removeCurrentBook", "addFinishedBook"}
             => /\ ProfileOwners' = ProfileOwners
                /\ \A owner \in ProfileUsers \ ProfileOwners :
                      /\ \A genre \in Genres :
                            (addGenre(owner, genre)
                                \/ removeGenre(owner, genre))
                               => /\ ret'.error = ErrProfileNotFound
                                  /\ profiles' = profiles
                      /\ \A book \in ProfileBooks :
                            (\/ addCurrentBook(owner, book)
                             \/ removeCurrentBook(owner, book)
                             \/ addFinishedBook(owner, book))
                               => /\ ret'.error = ErrProfileNotFound
                                  /\ profiles' = profiles]_vars

\* createProfile has just been refused for the owner of the one profile,
\* which holds a genre, a current book and a finished book.
C24_Witness ==
    /\ ret.op = "createProfile"
    /\ ret.error = ErrProfileExists
    /\ Len(profiles) = 1
    /\ profiles[1].genres # <<>>
    /\ profiles[1].currentBooks # <<>>
    /\ profiles[1].finishedBooks # <<>>
\* ------------------------------------------------------------------------
\* BookReading (BookReadingConcept.ts)
\* ------------------------------------------------------------------------

Readers == {"alice", "bob"}
ReadingBooks == {"Dune", "Emma"}
SectionIds == {"prologue", "chap1", "epilogue", "unknown"}

\* The error texts, without the ids they embed.
ErrAlreadyInLibrary == "Book is already in user's library."
ErrUnknownReason == "Failed to add book to library for an unknown reason."
ErrNotInLibrary == "Book is not in user's library."
ErrNoStructureDefined ==
    "Book structure not found or has no sections defined."
ErrNoStructure == "Book structure not found or has no sections."
ErrNoProgress == "No reading progress found for user on book."
ErrSectionNotInBook == "Section does not exist in book."
ErrPlaceNotInStructure == "Current place not found in book's structure."
ErrLastSection ==
    "No subsequent section exists for book. User is at the last section."
ErrAlreadyMarkedFinished == "Book is already marked as finished for user."
\* What the driver throws when an insert meets the unique index on _id.
ErrDuplicateKey == "MongoServerError: E11000 duplicate key error"

\* libraries.findOne({_id: owner, books: book})
findLibraryWith(owner, book) ==
    firstOrNull(SelectSeq(libraries,
        LAMBDA l : l._id = owner /\ book \in Range(l.books)))

\* The filter {_id: owner, books: {$ne: book}} of addToLibrary's updateOne.
findLibraryWithout(owner, book) ==
    firstOrNull(SelectSeq(libraries,
        LAMBDA l : l._id = owner /\ book \notin Range(l.books)))

\* bookStructures.findOne({_id: book})
findStructure(book) ==
    firstOrNull(SelectSeq(bookStructures, LAMBDA b : b._id = book))

\* Variant of findStructureWith: the section is not part of the filter.
findStructureAnySection(book, section) ==
    firstOrNull(SelectSeq(bookStructures, LAMBDA b : b._id = book))

\* bookStructures.findOne({_id: book, sections: section})
findStructureWith(book, section) ==
    firstOrNull(SelectSeq(bookStructures,
        LAMBDA b : b._id = book /\ section \in Range(b.sections)))

\* progresses.findOne({reader, book})
findProgress(reader, book) ==
    firstOrNull(SelectSeq(progresses,
        LAMBDA p : p.reader = reader /\ p.book = book))

\* Variant of indexOf: positions counted from one.
indexOfOneBased(sections, section) ==
    IF section \in Range(sections)
    THEN CHOOSE i \in 1..Len(sections) :
              /\ sections[i] = section
              /\ \A j \in 1..(i - 1) : sections[j] # section
    ELSE -1

\* sections.indexOf(section): zero-based, -1 when absent.
indexOf(sections, section) ==
    IF section \in Range(sections)
    THEN (CHOOSE i \in 1..Len(sections) :
              /\ sections[i] = section
              /\ \A j \in 1..(i - 1) : sections[j] # section) - 1
    ELSE -1

\* libraries.updateOne({_id: owner}, ...): the library of owner becomes doc.
replaceLibrary(owner, doc) ==
    [i \in 1..Len(libraries) |->
        IF i = firstIndex(libraries, owner) THEN doc ELSE libraries[i]]

\* progresses.updateOne({reader, book}, {$set: ...}): the first Progress of
\* the pair becomes doc.
replaceProgress(reader, book, doc) ==
    [i \in 1..Len(progresses) |->
        IF /\ progresses[i].reader = reader
           /\ progresses[i].book = book
           /\ \A j \in 1..(i - 1) :
                 ~(progresses[j].reader = reader /\ progresses[j].book = book)
        THEN doc
        ELSE progresses[i]]

\* Variant of deleteProgresses: nothing is deleted.
deleteNoProgresses(reader, book) ==
    progresses

\* progresses.deleteMany({reader, book})
deleteProgresses(reader, book) ==
    SelectSeq(progresses, LAMBDA p : ~(p.reader = reader /\ p.book = book))

\* What updateOne(filter, {$addToSet}, {upsert: true}) of addToLibrary
\* reports.  With no match the upsert inserts a document whose _id is the
\* filter's owner; when a library of that owner exists (it holds the book,
\* or the filter had matched) the insert meets the unique index on _id and
\* the call throws.
upsertLibrary(owner, book) ==
    IF findLibraryWithout(owner, book) # Null
    THEN [thrown |-> FALSE, matchedCount |-> 1, upsertedCount |-> 0]
    ELSE IF firstIndex(libraries, owner) # 0
    THEN [thrown |-> TRUE, matchedCount |-> 0, upsertedCount |-> 0]
    ELSE [thrown |-> FALSE, matchedCount |-> 0, upsertedCount |-> 1]

addToLibraryError(result, existingLibrary) ==
    IF result.thrown THEN ErrDuplicateKey
    ELSE IF result.matchedCount = 0 /\ result.upsertedCount = 0
    THEN IF existingLibrary # Null THEN ErrAlreadyInLibrary
         ELSE ErrUnknownReason
    ELSE NoError

openBookError(readerLibrary, bookStructure) ==
    IF readerLibrary = Null THEN ErrNotInLibrary
    ELSE IF bookStructure = Null THEN ErrNoStructureDefined
    ELSE IF Len(bookStructure.sections) = 0 THEN ErrNoStructureDefined
    ELSE NoError

\* Variant of openBookCreates: an existing Progress is not looked for.
openBookCreatesAnyway(error, existingProgress) ==
    error = NoError

\* Whether openBook inserts a Progress: its requirements hold and the pair
\* has none.
openBookCreates(error, existingProgress) ==
    error = NoError /\ existingProgress = Null

jumpToError(readerLibrary, existingProgress, bookStructure) ==
    IF readerLibrary = Null THEN ErrNotInLibrary
    ELSE IF existingProgress = Null THEN ErrNoProgress
    ELSE IF bookStructure = Null THEN ErrSectionNotInBook
    ELSE NoError

nextSectionError(existingProgress, bookStructure) ==
    IF existingProgress = Null THEN ErrNoProgress
    ELSE IF bookStructure = Null THEN ErrNoStructure
    ELSE IF Len(bookStructure.sections) = 0 THEN ErrNoStructure
    ELSE IF indexOf(bookStructure.sections, existingProgress.currentPlace)
               = -1
    THEN ErrPlaceNotInStructure
    ELSE IF indexOf(bookStructure.sections, existingProgress.currentPlace)
               >= Len(bookStructure.sections) - 1
    THEN ErrLastSection
    ELSE NoError

\* Variant of markFinishedError: the finished flag is not looked at.
markFinishedErrorProgressOnly(existingProgress) ==
    IF existingProgress = Null THEN ErrNoProgress ELSE NoError

markFinishedError(existingProgress) ==
    IF existingProgress = Null THEN ErrNoProgress
    ELSE IF existingProgress.finished THEN ErrAlreadyMarkedFinished
    ELSE NoError

resetProgressError(existingProgress, bookStructure) ==
    IF existingProgress = Null THEN ErrNoProgress
    ELSE IF bookStructure = Null THEN ErrNoStructure
    ELSE IF Len(bookStructure.sections) = 0 THEN ErrNoStructure
    ELSE NoError

removeFromLibraryError(ownerLibrary) ==
    IF ownerLibrary = Null THEN ErrNotInLibrary ELSE NoError

addToLibrary(owner, book) ==
    LET matched == findLibraryWithout(owner, book)
        result == upsertLibrary(owner, book)
        error == addToLibraryError(result, findLibraryWith(owner, book))
    IN /\ ret' = [op |-> "addToLibrary", error |-> error, result |-> 0]
       /\ libraries' =
             IF result.matchedCount = 1
             THEN replaceLibrary(owner,
                     [matched EXCEPT !.books = addToSet(@, book)])
             ELSE IF result.upsertedCount = 1
             THEN Append(libraries, [_id |-> owner, books |-> <<book>>])
             ELSE libraries
       /\ UNCHANGED <<bookStructures, progresses, otherThanBookReading>>

\* The _id that freshID() gives a new Progress is read by no handler and is
\* left out of the document.
openBook(reader, book) ==
    LET bookStructure == findStructure(book)
        error == openBookError(findLibraryWith(reader, book), bookStructure)
        existingProgress == findProgress(reader, book)
    IN /\ ret' = [op |-> "openBook", error |-> error, result |-> 0]
       /\ progresses' =
             IF ~openBookCreates(error, existingProgress) THEN progresses
             ELSE Append(progresses,
                     [reader |-> reader, book |-> book,
                      currentPlace |-> bookStructure.sections[1],
                      finished |-> FALSE])
       /\ UNCHANGED <<libraries, bookStructures, otherThanBookReading>>

jumpTo(reader, book, section) ==
    LET existingProgress == findProgress(reader, book)
        error == jumpToError(findLibraryWith(reader, book), existingProgress,
                             findStructureWith(book, section))
    IN /\ ret' = [op |-> "jumpTo", error |-> error, result |-> 0]
       /\ progresses' =
             IF error # NoError THEN progresses
             ELSE replaceProgress(reader, book,
                     [existingProgress EXCEPT !.currentPlace = section,
                                              !.finished = FALSE])
       /\ UNCHANGED <<libraries, bookStructures, otherThanBookReading>>

nextSection(reader, book) ==
    LET existingProgress == findProgress(reader, book)
        bookStructure == findStructure(book)
        error == nextSectionError(existingProgress, bookStructure)
    IN /\ ret' = [op |-> "nextSection", error |-> error, result |-> 0]
       /\ progresses' =
             IF error # NoError THEN progresses
             ELSE LET currentIndex ==
                          indexOf(bookStructure.sections,
                                  existingProgress.currentPlace)
                      nextSectionId ==
                          bookStructure.sections[(currentIndex + 1) + 1]
                  IN replaceProgress(reader, book,
                        [existingProgress EXCEPT
                            !.currentPlace = nextSectionId,
                            !.finished = FALSE])
       /\ UNCHANGED <<libraries, bookStructures, otherThanBookReading>>

markFinished(reader, book) ==
    LET existingProgress == findProgress(reader, book)
        error == markFinishedError(existingProgress)
    IN /\ ret' = [op |-> "markFinished", error |-> error, result |-> 0]
       /\ progresses' =
             IF error # NoError THEN progresses
             ELSE replaceProgress(reader, book,
                     [existingProgress EXCEPT !.finished = TRUE])
       /\ UNCHANGED <<libraries, bookStructures, otherThanBookReading>>

resetProgress(reader, book) ==
    LET existingProgress == findProgress(reader, book)
        bookStructure == findStructure(book)
        error == resetProgressError(existingProgress, bookStructure)
    IN /\ ret' = [op |-> "resetProgress", error |-> error, result |-> 0]
       /\ progresses' =
             IF error # NoError THEN progresses
             ELSE replaceProgress(reader, book,
                     [existingProgress EXCEPT
                         !.currentPlace = bookStructure.sections[1],
                         !.finished = FALSE])
       /\ UNCHANGED <<libraries, bookStructures, otherThanBookReading>>

removeFromLibrary(owner, book) ==
    LET ownerLibrary == findLibraryWith(owner, book)
        error == removeFromLibraryError(ownerLibrary)
    IN /\ ret' = [op |-> "removeFromLibrary", error |-> error, result |-> 0]
       /\ libraries' =
             IF error # NoError THEN libraries
             ELSE replaceLibrary(owner,
                     [ownerLibrary EXCEPT !.books = pull(@, book)])
       /\ progresses' =
             IF error # NoError THEN progresses
             ELSE deleteProgresses(owner, book)
       /\ UNCHANGED <<bookStructures, otherThanBookReading>>

NextBookReading ==
    \/ \E owner \in Readers, book \in ReadingBooks : addToLibrary(owner, book)
    \/ \E reader \in Readers, book \in ReadingBooks : openBook(reader, book)
    \/ \E reader \in Readers, book \in ReadingBooks, section \in SectionIds :
          jumpTo(reader, book, section)
    \/ \E reader \in Readers, book \in ReadingBooks :
          nextSection(reader, book)
    \/ \E reader \in Readers, book \in ReadingBooks :
          markFinished(reader, book)
    \/ \E reader \in Readers, book \in ReadingBooks :
          resetProgress(reader, book)
    \/ \E owner \in Readers, book \in ReadingBooks :
          removeFromLibrary(owner, book)

SpecBookReading == Init /\ [][NextBookReading]_vars
\* ------------------------------------------------------------------------
\* BookReading: vocabulary of the claims
\* ------------------------------------------------------------------------

\* The books in the library of owner (none when there is no library).
LibraryOf(owner) ==
    UNION {Range(libraries[i].books) :
              i \in {j \in 1..Len(libraries) : libraries[j]._id = owner}}

\* The positions of the Progresses of the pair (reader, book).
ProgressesOf(reader, book) ==
    {i \in 1..Len(progresses) :
        progresses[i].reader = reader /\ progresses[i].book = book}

\* The section list of book (empty when the book has no structure).
SectionsOf(book) ==
    IF findStructure(book) = Null THEN <<>> ELSE findStructure(book).sections

\* No library lists a book twice.
NoBookTwice ==
    \A i \in 1..Len(libraries) : DuplicateFree(libraries[i].books)

\* ------------------------------------------------------------------------
\* C25: addToLibrary for a book that is already in the owner's library
\* returns the error "Book <book> is already in user <owner>'s library."
\* and leaves the library unchanged, and a library never lists a book twice.
\* ------------------------------------------------------------------------
C25_AddToLibraryTwice ==
    /\ []NoBookTwice
    /\ [][ret'.op = "addToLibrary"
             => \A owner \in Readers, book \in ReadingBooks :
                   (addToLibrary(owner, book) /\ book \in LibraryOf(owner))
                      => /\ ret'.error = ErrAlreadyInLibrary
                         /\ libraries' = libraries]_vars
\* ------------------------------------------------------------------------
\* C26: openBook on a pair (reader, book) that has a Progress succeeds and
\* changes nothing, so there is at most one Progress per pair; the first
\* successful openBook of a pair creates its Progress at the first section
\* of the book with finished = false.
\* ------------------------------------------------------------------------
C26_OpenBookOnce ==
    /\ [](\A reader \in Readers, book \in ReadingBooks :
             Cardinality(ProgressesOf(reader, book)) <= 1)
    /\ [][ret'.op = "openBook"
             => \A reader \in Readers, book \in ReadingBooks :
                   openBook(reader, book)
                      => /\ ProgressesOf(reader, book) # {}
                            => /\ ret'.error = NoError
                               /\ progresses' = progresses
                               /\ libraries' = libraries
                         /\ (ProgressesOf(reader, book) = {}
                               /\ ret'.error = NoError)
                            => progresses' =
                                  Append(progresses,
                                     [reader |-> reader, book |-> book,
                                      currentPlace |->
                                          Head(SectionsOf(book)),
                                      finished |-> FALSE])]_vars

\* openBook has succeeded for a pair whose Progress had moved on or had been
\* marked finished, and another reader's Progress exists beside it.
C26_Witness ==
    /\ ret.op = "openBook"
    /\ ret.error = NoError
    /\ Len(progresses) = 2
    /\ \A i \in 1..Len(progresses) :
          progresses[i].currentPlace # "prologue" \/ progresses[i].finished
\* ------------------------------------------------------------------------
\* C27: nextSection moves currentPlace from position i of the book's ordered
\* section list to position i + 1, leaving every other Progress alone; it
\* fails and leaves the progresses unchanged when the pair has no Progress
\* or currentPlace is the last section of the list.
\* ------------------------------------------------------------------------
C27_NextSection ==
    [][ret'.op = "nextSection"
          => \A reader \in Readers, book \in ReadingBooks :
                nextSection(reader, book)
                   => LET before == findProgress(reader, book)
                          list == SectionsOf(book)
                          atLast == /\ before # Null
                                    /\ Len(list) > 0
                                    /\ before.currentPlace = list[Len(list)]
                      IN /\ (before = Null \/ atLast)
                            => /\ ret'.error # NoError
                               /\ progresses' = progresses
                         /\ (before # Null
                               /\ \E i \in 1..(Len(list) - 1) :
                                     before.currentPlace = list[i])
                            => ret'.error = NoError
                         /\ ret'.error = NoError
                            => /\ \E i \in 1..(Len(list) - 1) :
                                     /\ before.currentPlace = list[i]
                                     /\ findProgress(reader, book)'
                                           .currentPlace = list[i + 1]
                               /\ Len(progresses') = Len(progresses)
                               /\ \A j \in 1..Len(progresses) :
                                     j \notin ProgressesOf(reader, book)
                                        => progresses'[j] = progresses[j]
                         /\ libraries' = libraries]_vars

\* nextSection has failed for a reader whose Progress is at the last section
\* while the other reader's Progress is one section in.
C27_Witness ==
    /\ ret.op = "nextSection"
    /\ ret.error = ErrLastSection
    /\ \E i \in 1..Len(progresses) : progresses[i].currentPlace = "epilogue"
    /\ \E i \in 1..Len(progresses) : progresses[i].currentPlace = "chap1"
\* ------------------------------------------------------------------------
\* C28: a Progress exists only while its book is in the reader's library.
\* openBook fails without a change for a book that is not in the library;
\* a successful removeFromLibrary takes the book out of the library and
\* deletes the pair's Progress in the same step; a book that enters a
\* library has no Progress, so the next successful openBook starts it at
\* the first section with finished = false.
\* ------------------------------------------------------------------------
C28_ProgressOnlyInLibrary ==
    /\ [](\A i \in 1..Len(progresses) :
             progresses[i].book \in LibraryOf(progresses[i].reader))
    /\ [][\A reader \in Readers, book \in ReadingBooks :
             /\ (ret'.op = "openBook" /\ openBook(reader, book)
                    /\ book \notin LibraryOf(reader))
                   => /\ ret'.error = ErrNotInLibrary
                      /\ progresses' = progresses
             /\ (ret'.op = "removeFromLibrary"
                    /\ removeFromLibrary(reader, book)
                    /\ ret'.error = NoError)
                   => /\ book \in LibraryOf(reader)
                      /\ book \notin LibraryOf(reader)'
                      /\ ProgressesOf(reader, book)' = {}
             /\ (book \notin LibraryOf(reader) /\ book \in LibraryOf(reader)')
                   => /\ ret'.op = "addToLibrary"
                      /\ ProgressesOf(reader, book)' = {}
             /\ (ret'.op = "openBook" /\ openBook(reader, book)
                    /\ ret'.error = NoError
                    /\ ProgressesOf(reader, book) = {})
                   => /\ findProgress(reader, book)'.currentPlace
                            = Head(SectionsOf(book))
                      /\ ~findProgress(reader, book)'.finished]_vars

\* removeFromLibrary has succeeded: a library is left without books, the
\* only Progress left is the other reader's, which had moved on.
C28_Witness ==
    /\ ret.op = "removeFromLibrary"
    /\ ret.error = NoError
    /\ \E i \in 1..Len(libraries) :
          /\ libraries[i].books = <<>>
          /\ \A j \in 1..Len(progresses) :
                progresses[j].reader # libraries[i]._id
    /\ Len(progresses) = 1
    /\ progresses[1].currentPlace = "epilogue"
\* ------------------------------------------------------------------------
\* C29: with the book structures fixed, the currentPlace of every Progress
\* is a section of its book's list.  A successful openBook of a new pair and
\* a successful resetProgress set the first section, a successful jumpTo
\* sets the requested section, and jumpTo to a section that is not in the
\* book's list fails and leaves the progresses unchanged.
\* ------------------------------------------------------------------------
C29_CurrentPlaceInBook ==
    /\ [](\A i \in 1..Len(progresses) :
             progresses[i].currentPlace
                \in Range(SectionsOf(progresses[i].book)))
    /\ [][/\ bookStructures' = bookStructures
          /\ ret'.op = "jumpTo"
                => \A reader \in Readers, book \in ReadingBooks,
                      section \in SectionIds :
                      jumpTo(reader, book, section)
                         => IF section \in Range(SectionsOf(book))
                            THEN ret'.error = NoError
                                    => findProgress(reader, book)'
                                          .currentPlace = section
                            ELSE /\ ret'.error # NoError
                                 /\ progresses' = progresses
          /\ (ret'.op = "resetProgress" /\ ret'.error = NoError)
                => \A reader \in Readers, book \in ReadingBooks :
                      resetProgress(reader, book)
                         => findProgress(reader, book)'.currentPlace
                               = Head(SectionsOf(book))
          /\ (ret'.op = "openBook" /\ ret'.error = NoError)
                => \A reader \in Readers, book \in ReadingBooks :
                      (openBook(reader, book)
                          /\ ProgressesOf(reader, book) = {})
                         => findProgress(reader, book)'.currentPlace
                               = Head(SectionsOf(book))
          /\ (ret'.op = "nextSection" /\ ret'.error = NoError)
                => \A reader \in Readers, book \in ReadingBooks :
                      nextSection(reader, book)
                         => \E i \in 1..(Len(SectionsOf(book)) - 1) :
                               /\ findProgress(reader, book).currentPlace
                                     = SectionsOf(book)[i]
                               /\ findProgress(reader, book)'.currentPlace
                                     = SectionsOf(book)[i + 1]]_vars

\* jumpTo has failed for a section outside the book while both readers have
\* a Progress, one of them past the first section.
C29_Witness ==
    /\ ret.op = "jumpTo"
    /\ ret.error = ErrSectionNotInBook
    /\ Len(progresses) = 2
    /\ progresses[1].currentPlace = "chap1"
\* ------------------------------------------------------------------------
\* C30: the finished flag of a Progress becomes true only through a
\* successful markFinished of its pair.  markFinished succeeds only while
\* finished is false (a second markFinished fails and changes nothing) and
\* leaves currentPlace unchanged; every successful jumpTo, nextSection and
\* resetProgress leaves the pair's Progress with finished = false, also when
\* it had been marked finished.
\* ------------------------------------------------------------------------
C30_FinishedFlag ==
    [][\A reader \in Readers, book \in ReadingBooks :
          LET before == findProgress(reader, book)
              after == findProgress(reader, book)'
          IN /\ (after # Null /\ after.finished
                    /\ (before = Null \/ ~before.finished))
                   => /\ ret'.op = "markFinished"
                      /\ ret'.error = NoError
                      /\ markFinished(reader, book)
             /\ (ret'.op = "markFinished" /\ markFinished(reader, book))
                   => /\ ret'.error = NoError
                         <=> (before # Null /\ ~before.finished)
                      /\ ret'.error = NoError
                         => /\ after.finished
                            /\ after.currentPlace = before.currentPlace
                      /\ ret'.error # NoError => progresses' = progresses
             /\ (ret'.op = "nextSection" /\ ret'.error = NoError
                    /\ nextSection(reader, book))
                   => ~after.finished
             /\ (ret'.op = "resetProgress" /\ ret'.error = NoError
                    /\ resetProgress(reader, book))
                   => ~after.finished
             /\ (ret'.op = "jumpTo" /\ ret'.error = NoError
                    /\ \E section \in SectionIds :
                          jumpTo(reader, book, section))
                   => ~after.finished]_vars

\* A second markFinished has failed: the Progress is finished and is past
\* the first section.
C30_Witness ==
    /\ ret.op = "markFinished"
    /\ ret.error = ErrAlreadyMarkedFinished
    /\ \E i \in 1..Len(progresses) :
          progresses[i].finished /\ progresses[i].currentPlace = "epilogue"
\* ------------------------------------------------------------------------
\* Commentary: further claims on the atomic actions
\* ------------------------------------------------------------------------

\* c is reachable from its own parent by following parentId.
OnParentCycle(c) ==
    /\ c.parentId # NoParent
    /\ ReachesUp(c.parentId, c._id, Len(comments))

\* ------------------------------------------------------------------------
\* C32: the parent-pointer relation over comments is acyclic in every
\* reachable state: a reply names a parent that existed before the reply was
\* created.  So the breadth-first walk of deleteComment from any existing
\* comment ends, and its result lists the comment and each of its
\* descendants exactly once.
\* ------------------------------------------------------------------------
C32_AcyclicTraversal ==
    /\ [](/\ \A c \in Range(comments) :
                /\ ~OnParentCycle(c)
                /\ c.parentId # NoParent
                      => c.parentId \in CommentIds /\ c.parentId < c._id
          /\ \A target \in CommentIds :
                LET commentsToDelete ==
                        collectDescendants(<<target>>, <<target>>)
                IN /\ DuplicateFree(commentsToDelete)
                   /\ Range(commentsToDelete) = Subtree(target))
    /\ [][\A c \in Range(comments') :
             (c._id \notin CommentIds /\ c.parentId # NoParent)
                => c.parentId \in CommentIds]_vars

\* A successful deleteComment has walked from its target over two
\* descendants and removed all three comments.
C32_Witness ==
    /\ DeleteSucceeded
    /\ Cardinality(deleted) = 3
    /\ comments = <<>>
    /\ \A d \in deleted : d >= ret.args.target
\* ------------------------------------------------------------------------
\* C33: with atomic actions, in every reachable state the topLevelCommentIds
\* of each thread lists, without duplicates, exactly the existing comments
\* of that thread that have no parentId: a top-level comment is listed in
\* the thread its threadId names and in no other, and no listed id is that
\* of a deleted comment or of a reply.
\* ------------------------------------------------------------------------
C33_TopLevelLists ==
    /\ \A i \in 1..Len(threads) :
          /\ DuplicateFree(threads[i].topLevelCommentIds)
          /\ Range(threads[i].topLevelCommentIds)
                = {c._id : c \in {d \in Range(comments) :
                                     /\ d.threadId = threads[i]._id
                                     /\ d.parentId = NoParent}}
    /\ \A c \in Range(comments) :
          c.parentId = NoParent
             => Cardinality({i \in 1..Len(threads) :
                                c._id \in Range(threads[i]
                                                  .topLevelCommentIds)}) = 1

\* After a successful deleteComment of a top-level comment, one thread lists
\* nothing any more while the other thread still lists its one comment.
C33_Witness ==
    /\ DeleteSucceeded
    /\ Len(threads) = 2
    /\ \E i, j \in 1..Len(threads) :
          /\ threads[i].topLevelCommentIds = <<>>
          /\ Len(threads[j].topLevelCommentIds) = 1
    /\ Len(comments) = 1
\* ------------------------------------------------------------------------
\* C34: with atomic actions, in every reachable state the reactionIds of
\* every existing comment c lists, without duplicates, exactly the ids of
\* the reactions whose targetCommentId is c, so that c.reactionIds and
\* _getCommentReactions(c) name the same reactions; and no reaction exists
\* whose target comment does not exist.
\* ------------------------------------------------------------------------
C34_ReactionLists ==
    /\ \A c \in Range(comments) :
          /\ DuplicateFree(c.reactionIds)
          /\ Range(c.reactionIds)
                = {r._id : r \in {x \in Range(reactions) :
                                     x.targetCommentId = c._id}}
          /\ Range(c.reactionIds)
                = {r._id : r \in Range(_getCommentReactions(c._id))}
    /\ \A r \in Range(reactions) : r.targetCommentId \in CommentIds

\* After a successful react one comment carries both existing reactions.
C34_Witness ==
    /\ ret.op = "react"
    /\ ret.error = NoError
    /\ \E c \in Range(comments) : Len(c.reactionIds) = 2
    /\ Len(reactions) = 2
\* ------------------------------------------------------------------------
\* C35: a comment disappears only in a successful deleteComment whose target
\* is the comment or one of its ancestors and whose requestor is the author
\* of that target; so a user who wrote neither the comment nor an ancestor
\* cannot remove it.  A deleteComment by the target's author removes every
\* comment below the target and every reaction on them, whoever wrote them.
\* ------------------------------------------------------------------------
C35_OnlyAuthorsRemove ==
    [][/\ \A c \in CommentIds :
             c \notin CommentIds'
                => /\ ret'.op = "deleteComment"
                   /\ ret'.error = NoError
                   /\ ret'.args.target \in CommentIds
                   /\ ReachesUp(c, ret'.args.target, Len(comments))
                   /\ CommentById(ret'.args.target).author
                         = ret'.args.requestor
       /\ (/\ ret'.op = "deleteComment"
           /\ ret'.args.target \in CommentIds
           /\ CommentById(ret'.args.target).author = ret'.args.requestor)
             => \A c \in Subtree(ret'.args.target) :
                   /\ c \notin CommentIds'
                   /\ \A r \in Range(reactions') : r.targetCommentId # c
       /\ (/\ ret'.op = "deleteComment"
           /\ ret'.args.target \in CommentIds
           /\ CommentById(ret'.args.target).author # ret'.args.requestor)
             => comments' = comments /\ reactions' = reactions]_vars

\* A deleteComment was refused for a requestor who wrote a reply to the
\* target but not the target: the target is still there, and so is the
\* reply with the reaction it carries.
C35_Witness ==
    /\ ret.op = "deleteComment"
    /\ ret.error = ErrNotAuthor
    /\ \E c \in Range(comments) :
          /\ c.parentId = ret.args.target
          /\ c.author = ret.args.requestor
          /\ c.reactionIds # <<>>
\* ------------------------------------------------------------------------
\* C36: with atomic actions, in every reachable state no chat has among its
\* participants both the blocker and the blocked user of an existing block.
\* No action adds a participant to an existing chat, and a chat that is
\* created holds no blocked pair, in either direction.
\* ------------------------------------------------------------------------
C36_NoBlockedPairInChat ==
    /\ [](\A i \in 1..Len(chats) : \A b \in Range(blocks) :
             ~({b.blocker, b.blocked} \subseteq Range(chats[i].participants)))
    /\ [][/\ \A id \in ChatIdSet :
                /\ id \in ChatIdSet'
                /\ ParticipantsOf(id)' \subseteq ParticipantsOf(id)
          /\ \A id \in ChatIdSet' \ ChatIdSet :
                \A u, v \in ParticipantsOf(id)' : ~BlockBetween(u, v)]_vars

\* A successful blockUser has taken the requester out of a chat, and two
\* blocks exist while a chat of two participants is still there.
C36_Witness ==
    /\ ret.op = "blockUser"
    /\ ret.error = NoError
    /\ removedByBlock # {}
    /\ Len(blocks) = 2
    /\ \E i \in 1..Len(chats) : Len(chats[i].participants) = 2
\* ------------------------------------------------------------------------
\* C37: in a profile, finishedBooks only grows: no step takes a book out of
\* the finishedBooks of a profile or removes the profile, and a book that is
\* in finishedBooks is never in currentBooks afterwards: addCurrentBook for
\* it and a repeated addFinishedBook for it return an error and change
\* nothing.
\* ------------------------------------------------------------------------
C37_FinishedBooksGrow ==
    [][\A owner \in ProfileOwners :
          /\ owner \in ProfileOwners'
          /\ FinishedOf(owner) \subseteq FinishedOf(owner)'
          /\ \A book \in FinishedOf(owner) :
                /\ book \notin CurrentOf(owner)'
                /\ (ret'.op \in {"addCurrentBook", "addFinishedBook"}
                      /\ (addCurrentBook(owner, book)
                             \/ addFinishedBook(owner, book)))
                      => /\ ret'.error # NoError
                         /\ profiles' = profiles]_vars

\* addCurrentBook was refused for a finished book on a profile that has
\* finished both books.
C37_Witness ==
    /\ ret.op = "addCurrentBook"
    /\ ret.error = ErrBookAlreadyFinished
    /\ \E p \in Range(profiles) : Len(p.finishedBooks) = 2
\* ------------------------------------------------------------------------
\* Commentary at the granularity of store calls
\*
\* Each await of a handler is one step: the store call together with the
\* synchronous code that follows it up to the next await.  The first step
\* of an invocation takes its arguments; the last one returns and sets ret.
\* ------------------------------------------------------------------------

\* What the steps of Commentary never touch.
otherThanCommentarySteps == otherConceptsThanCommentary

\* The invocation of process p moves on to its next store call.
proceed(p, call) == calls' = [calls EXCEPT ![p] = call]

\* The invocation of process p returns.
return(p, op, args, error, result) ==
    /\ ret' = [op |-> op, args |-> args, error |-> error, result |-> result]
    /\ calls' = [calls EXCEPT ![p] = Idle]

\* let threadDoc = await this.threads.findOne({ book, section })
postComment_findThread(p, author, book, section, body) ==
    LET threadDoc == findThread(book, section)
    IN /\ calls[p] = Idle
       /\ proceed(p, [Idle EXCEPT
                         !.op = "postComment",
                         !.pc = IF threadDoc = Null THEN "insertThread"
                                ELSE "insertComment",
                         !.args = [author |-> author, book |-> book,
                                   section |-> section, body |-> body],
                         !.doc = threadDoc])
       /\ UNCHANGED <<store, nextId, ret, deleted, otherThanCommentarySteps>>

\* threadId = freshID(); await this.threads.insertOne(threadDoc)
postComment_insertThread(p) ==
    LET call == calls[p]
        threadDoc == newThread(freshID(0), call.args.book, call.args.section)
    IN /\ call.op = "postComment" /\ call.pc = "insertThread"
       /\ freshID(0) <= MaxIds
       /\ threads' = Append(threads, threadDoc)
       /\ nextId' = nextId + 1
       /\ proceed(p, [call EXCEPT !.pc = "insertComment", !.doc = threadDoc])
       /\ UNCHANGED <<comments, reactions, ret, deleted,
                      otherThanCommentarySteps>>

\* const newCommentId = freshID(); await this.comments.insertOne(newComment)
postComment_insertComment(p) ==
    LET call == calls[p]
        newCommentId == freshID(0)
    IN /\ call.op = "postComment" /\ call.pc = "insertComment"
       /\ newCommentId <= MaxIds
       /\ comments' = Append(comments,
                         newTopLevelComment(newCommentId, call.args.author,
                                            call.args.body, call.doc._id))
       /\ nextId' = nextId + 1
       /\ proceed(p, [call EXCEPT !.pc = "pushTopLevel",
                                  !.id = newCommentId])
       /\ UNCHANGED <<threads, reactions, ret, deleted,
                      otherThanCommentarySteps>>

\* await this.threads.updateOne({ _id: threadId }, { $push }); return
postComment_pushTopLevel(p) ==
    LET call == calls[p]
    IN /\ call.op = "postComment" /\ call.pc = "pushTopLevel"
       /\ threads' = pushTopLevel(threads, call.doc._id, call.id)
       /\ return(p, "postComment", call.args, NoError, call.id)
       /\ UNCHANGED <<comments, reactions, nextId, deleted,
                      otherThanCommentarySteps>>

\* const parentComment = await this.comments.findOne({ _id: parent })
reply_findParent(p, author, parent, body) ==
    LET parentComment == findComment(parent)
        error == replyError(parentComment)
        args == [author |-> author, parent |-> parent, body |-> body]
    IN /\ calls[p] = Idle
       /\ IF error # NoError
          THEN return(p, "reply", args, error, 0)
          ELSE /\ proceed(p, [Idle EXCEPT !.op = "reply",
                                          !.pc = "insertComment",
                                          !.args = args,
                                          !.doc = parentComment])
               /\ UNCHANGED ret
       /\ UNCHANGED <<store, nextId, deleted, otherThanCommentarySteps>>

\* const newCommentId = freshID(); await this.comments.insertOne(newComment);
\* return
reply_insertComment(p) ==
    LET call == calls[p]
        newCommentId == freshID(0)
    IN /\ call.op = "reply" /\ call.pc = "insertComment"
       /\ newCommentId <= MaxIds
       /\ comments' = Append(comments,
                         newReply(newCommentId, call.args.author,
                                  call.args.body, call.doc))
       /\ nextId' = nextId + 1
       /\ return(p, "reply", call.args, NoError, newCommentId)
       /\ UNCHANGED <<threads, reactions, deleted, otherThanCommentarySteps>>

\* const targetComment = await this.comments.findOne({ _id: target })
react_findTarget(p, reactor, target, type) ==
    LET targetComment == findComment(target)
        error == reactError(targetComment, Null)
        args == [reactor |-> reactor, target |-> target, type |-> type]
    IN /\ calls[p] = Idle
       /\ IF error # NoError
          THEN return(p, "react", args, error, 0)
          ELSE /\ proceed(p, [Idle EXCEPT !.op = "react",
                                          !.pc = "findReaction",
                                          !.args = args,
                                          !.doc = targetComment])
               /\ UNCHANGED ret
       /\ UNCHANGED <<store, nextId, deleted, otherThanCommentarySteps>>

\* const existingReaction = await this.reactions.findOne({ reactor, ... })
react_findReaction(p) ==
    LET call == calls[p]
        existingReaction == findReaction(call.args.reactor, call.args.target,
                                         call.args.type)
        error == reactError(call.doc, existingReaction)
    IN /\ call.op = "react" /\ call.pc = "findReaction"
       /\ IF error # NoError
          THEN return(p, "react", call.args, error, 0)
          ELSE /\ proceed(p, [call EXCEPT !.pc = "insertReaction"])
               /\ UNCHANGED ret
       /\ UNCHANGED <<store, nextId, deleted, otherThanCommentarySteps>>

\* const newReactionId = freshID(); await this.reactions.insertOne(...)
react_insertReaction(p) ==
    LET call == calls[p]
        newReactionId == freshID(0)
    IN /\ call.op = "react" /\ call.pc = "insertReaction"
       /\ newReactionId <= MaxIds
       /\ reactions' = Append(reactions,
                          newReaction(newReactionId, call.args.reactor,
                                      call.args.target, call.args.type))
       /\ nextId' = nextId + 1
       /\ proceed(p, [call EXCEPT !.pc = "pushReaction",
                                  !.id = newReactionId])
       /\ UNCHANGED <<threads, comments, ret, deleted,
                      otherThanCommentarySteps>>

\* await this.comments.updateOne({ _id: target }, { $push }); return
react_pushReaction(p) ==
    LET call == calls[p]
    IN /\ call.op = "react" /\ call.pc = "pushReaction"
       /\ comments' = pushReaction(comments, call.args.target, call.id)
       /\ return(p, "react", call.args, NoError, call.id)
       /\ UNCHANGED <<threads, reactions, nextId, deleted,
                      otherThanCommentarySteps>>

\* const targetComment = await this.comments.findOne({ _id: target }); the
\* work list and the deleted set start with the target.
deleteComment_findTarget(p, requestor, target) ==
    LET targetComment == findComment(target)
        error == deleteError(targetComment, requestor)
        args == [requestor |-> requestor, target |-> target]
    IN /\ calls[p] = Idle
       /\ IF error # NoError
          THEN return(p, "deleteComment", args, error, 0)
          ELSE /\ proceed(p, [Idle EXCEPT !.op = "deleteComment",
                                          !.pc = "findChildren",
                                          !.args = args,
                                          !.doc = targetComment,
                                          !.queue = <<target>>,
                                          !.collected = <<target>>])
               /\ UNCHANGED ret
       /\ UNCHANGED <<store, nextId, deleted, otherThanCommentarySteps>>

\* One round of the while loop: await this.comments.find({ parentId })
deleteComment_findChildren(p) ==
    LET call == calls[p]
        children == directChildren(Head(call.queue))
        queue == Tail(call.queue) \o children
    IN /\ call.op = "deleteComment" /\ call.pc = "findChildren"
       /\ proceed(p, [call EXCEPT
                         !.pc = IF Len(queue) > 0 THEN "findChildren"
                                ELSE "deleteReactions",
                         !.queue = queue,
                         !.collected = call.collected \o children])
       /\ UNCHANGED <<store, nextId, ret, deleted, otherThanCommentarySteps>>

\* Variant of deleteComment_deleteReactions: the first write deletes the
\* comments and leaves the reactions.
deleteComment_commentsFirst(p) ==
    LET call == calls[p]
    IN /\ call.op = "deleteComment" /\ call.pc = "deleteReactions"
       /\ comments' = deleteCommentsIn(call.collected)
       /\ proceed(p, [call EXCEPT !.pc = "deleteComments"])
       /\ UNCHANGED <<threads, reactions, nextId, ret, deleted,
                      otherThanCommentarySteps>>

\* await this.reactions.deleteMany({ targetCommentId: { $in } })
deleteComment_deleteReactions(p) ==
    LET call == calls[p]
    IN /\ call.op = "deleteComment" /\ call.pc = "deleteReactions"
       /\ reactions' = deleteReactionsOf(call.collected)
       /\ proceed(p, [call EXCEPT !.pc = "deleteComments"])
       /\ UNCHANGED <<threads, comments, nextId, ret, deleted,
                      otherThanCommentarySteps>>

\* await this.comments.deleteMany({ _id: { $in } }); a reply returns here
deleteComment_deleteComments(p) ==
    LET call == calls[p]
    IN /\ call.op = "deleteComment" /\ call.pc = "deleteComments"
       /\ comments' = deleteCommentsIn(call.collected)
       /\ deleted' = deleted \cup Range(call.collected)
       /\ IF call.doc.parentId = NoParent
          THEN /\ proceed(p, [call EXCEPT !.pc = "pullTopLevel"])
               /\ UNCHANGED ret
          ELSE return(p, "deleteComment", call.args, NoError, 0)
       /\ UNCHANGED <<threads, reactions, nextId, otherThanCommentarySteps>>

\* await this.threads.updateOne({ _id: threadId }, { $pull }); return
deleteComment_pullTopLevel(p) ==
    LET call == calls[p]
    IN /\ call.op = "deleteComment" /\ call.pc = "pullTopLevel"
       /\ threads' = pullTopLevel(threads, call.doc.threadId,
                                  call.args.target)
       /\ return(p, "deleteComment", call.args, NoError, 0)
       /\ UNCHANGED <<comments, reactions, nextId, deleted,
                      otherThanCommentarySteps>>
\* The arguments of the invocations that run step by step: one section
\* and one reaction type, so that the invocations meet on the same
\* documents.
StepSections == {"S1"}
StepReactionTypes == {"like"}

\* The store calls of each action for process p, for every choice of
\* arguments.
postCommentSteps(p) ==
    \/ \E author \in Users, book \in Books, section \in StepSections,
          body \in Texts : postComment_findThread(p, author, book, section,
                                                  body)
    \/ postComment_insertThread(p)
    \/ postComment_insertComment(p)
    \/ postComment_pushTopLevel(p)

replySteps(p) ==
    \/ \E author \in Users, parent \in Ids, body \in Texts :
          reply_findParent(p, author, parent, body)
    \/ reply_insertComment(p)

reactSteps(p) ==
    \/ \E reactor \in Users, target \in Ids, type \in StepReactionTypes :
          react_findTarget(p, reactor, target, type)
    \/ react_findReaction(p)
    \/ react_insertReaction(p)
    \/ react_pushReaction(p)

deleteCommentSteps(p) ==
    \/ \E requestor \in Users, target \in Ids :
          deleteComment_findTarget(p, requestor, target)
    \/ deleteComment_findChildren(p)
    \/ deleteComment_deleteReactions(p)
    \/ deleteComment_deleteComments(p)
    \/ deleteComment_pullTopLevel(p)

stepsOf(p) ==
    \/ postCommentSteps(p)
    \/ replySteps(p)
    \/ reactSteps(p)
    \/ deleteCommentSteps(p)

\* One writer: process 1 runs its invocations one after the other, and a
\* reader sees the store after each store call.
NextOneWriter == stepsOf(1)

SpecOneWriter == Init /\ [][NextOneWriter]_vars

\* Two writers that post: postComment invocations of the two processes
\* interleave at their store calls.
NextTwoPosters == \E p \in Procs : postCommentSteps(p)

SpecTwoPosters == Init /\ [][NextTwoPosters]_vars

\* A writer that posts and deletes beside a writer that replies and reacts:
\* the invocations of the two processes interleave at their store calls.
NextDeleteBesideReply ==
    \/ postCommentSteps(1)
    \/ deleteCommentSteps(1)
    \/ replySteps(2)
    \/ reactSteps(2)

SpecDeleteBesideReply == Init /\ [][NextDeleteBesideReply]_vars
\* ------------------------------------------------------------------------
\* Commentary: claims on the store calls
\* ------------------------------------------------------------------------

\* The processes whose deleteComment is about to perform the store call pc.
DeletingAt(pc) ==
    {p \in Procs : calls[p].op = "deleteComment" /\ calls[p].pc = pc}

\* The top-level list of the thread with the given id.
TopLevelOf(threadId) ==
    UNION {Range(threads[i].topLevelCommentIds) :
              i \in {j \in 1..Len(threads) : threads[j]._id = threadId}}

\* ------------------------------------------------------------------------
\* C31: deleteComment writes in three separate store calls, in the order
\* reactions of the deleted set, comments of the deleted set, top-level list
\* of the thread.  With one writer, a reader sees after the first write a
\* store where the reactions on the deleted set are gone and its comments
\* all exist, and after the second write a store where a top-level target
\* is gone and its id is still in the top-level list of its thread; it never
\* sees a reaction whose target comment is gone.
\* ------------------------------------------------------------------------
C31_DeleteOrder ==
    /\ [](/\ \A p \in DeletingAt("deleteComments") :
                \A c \in Range(calls[p].collected) :
                   /\ c \in CommentIds
                   /\ \A r \in Range(reactions) : r.targetCommentId # c
          /\ \A p \in DeletingAt("pullTopLevel") :
                /\ calls[p].args.target \notin CommentIds
                /\ calls[p].args.target \in TopLevelOf(calls[p].doc.threadId)
          /\ \A r \in Range(reactions) : r.targetCommentId \in CommentIds)
    /\ [][/\ reactions' # reactions /\ Len(reactions') < Len(reactions)
             => /\ DeletingAt("deleteReactions") # {}
                /\ comments' = comments /\ threads' = threads
          /\ Len(comments') < Len(comments)
             => /\ DeletingAt("deleteComments") # {}
                /\ reactions' = reactions /\ threads' = threads
          /\ (\E i \in 1..Len(threads) :
                 Len(threads'[i].topLevelCommentIds)
                    < Len(threads[i].topLevelCommentIds))
             => /\ DeletingAt("pullTopLevel") # {}
                /\ reactions' = reactions /\ comments' = comments]_vars

\* A deleteComment has deleted the reactions and is about to delete the
\* comments: its target and a reply still exist, the target still lists the
\* ids of its reactions, and no reaction is left.
C31_Witness ==
    \E p \in DeletingAt("deleteComments") :
       /\ Len(calls[p].collected) = 2
       /\ CommentById(calls[p].args.target).reactionIds # <<>>
       /\ reactions = <<>>
\* ------------------------------------------------------------------------
\* C38: at most one thread exists per (book, section) pair also when two
\* postComment invocations for the same pair, which has no thread yet,
\* interleave at their store calls (find the thread, insert the thread,
\* insert the comment, push the comment id); and once both have returned,
\* the single thread lists both new comments.
\* ------------------------------------------------------------------------
C38_OneThreadWhenRacing ==
    /\ \A book \in Books, section \in Sections :
          Cardinality(ThreadsOf(book, section)) <= 1
    /\ (\A p \in Procs : calls[p] = Idle)
          => \A c \in Range(comments) :
                \A i \in 1..Len(threads) :
                   c._id \in Range(threads[i].topLevelCommentIds)
\* ------------------------------------------------------------------------
\* C39: when a reply to, or a react on, a comment interleaves at store
\* calls with a deleteComment whose deleted set holds that comment, no
\* orphan is left: once every invocation has returned, no comment names a
\* missing comment as its parent and no reaction names a missing comment as
\* its target.
\* ------------------------------------------------------------------------
C39_NoOrphanWhenRacing ==
    (\A p \in Procs : calls[p] = Idle)
       => /\ \A c \in Range(comments) :
                c.parentId # NoParent => c.parentId \in CommentIds
          /\ \A r \in Range(reactions) : r.targetCommentId \in CommentIds
\* ------------------------------------------------------------------------
\* Messaging at store-call granularity: every await of startChat and of
\* blockUser is one step of the invocation recorded in calls[p].
\* ------------------------------------------------------------------------
\* The invocation of process p returns from a Messaging handler.
returnMessaging(p, op, error, result) ==
    /\ ret' = [op |-> op, error |-> error, result |-> result]
    /\ calls' = [calls EXCEPT ![p] = Idle]

\* The pairs <<u1, u2>> the nested loop of startChat visits, in its order.
RECURSIVE pairsFrom(_, _, _)
pairsFrom(unique, i, j) ==
    IF i >= Len(unique) THEN <<>>
    ELSE IF j > Len(unique) THEN pairsFrom(unique, i + 1, i + 2)
    ELSE <<(<<unique[i], unique[j]>>)>> \o pairsFrom(unique, i, j + 1)

\* The synchronous checks of startChat before its first store call.
startChatEarlyError(creator, unique) ==
    IF Len(unique) < 2 THEN ErrTooFewParticipants
    ELSE IF creator \notin Range(unique) THEN ErrCreatorNotParticipant
    ELSE NoError

\* One turn of the loop: await this.blocks.findOne({$or: ...}) for the pair
\* at the head of pairs, with call the invocation as it stands.
startChat_lookup(p, call, pairs) ==
    LET existingBlock == existingBlockBetween(Head(pairs)[1], Head(pairs)[2])
    IN IF existingBlock # Null
       THEN returnMessaging(p, "startChat", ErrBlockBetween, 0)
       ELSE /\ proceed(p, [call EXCEPT
                              !.pc = IF Tail(pairs) = <<>> THEN "insertChat"
                                     ELSE "findBlock",
                              !.queue = Tail(pairs)])
            /\ UNCHANGED ret

\* The synchronous checks and the first turn of the loop.
startChat_findFirstBlock(p, creator, participants) ==
    LET unique == uniqueParticipants(participants)
        error == startChatEarlyError(creator, unique)
    IN /\ calls[p] = Idle
       /\ IF error # NoError
          THEN returnMessaging(p, "startChat", error, 0)
          ELSE startChat_lookup(p,
                  [Idle EXCEPT !.op = "startChat",
                               !.args = [creator |-> creator,
                                         participants |-> unique]],
                  pairsFrom(unique, 1, 2))
       /\ UNCHANGED <<messagingVars, nextId, otherConceptsThanMessaging>>

\* A later turn of the loop.
startChat_findBlock(p) ==
    /\ calls[p].op = "startChat"
    /\ calls[p].pc = "findBlock"
    /\ startChat_lookup(p, calls[p], calls[p].queue)
    /\ UNCHANGED <<messagingVars, nextId, otherConceptsThanMessaging>>

\* await this.chats.insertOne(newChat); return { chat: chatId }
startChat_insertChat(p) ==
    LET chatId == freshID(0)
    IN /\ calls[p].op = "startChat"
       /\ calls[p].pc = "insertChat"
       /\ chatId <= MaxChatIds
       /\ chats' = Append(chats,
                      [_id |-> chatId,
                       participants |-> calls[p].args.participants,
                       messages |-> <<>>])
       /\ nextId' = nextId + 1
       /\ returnMessaging(p, "startChat", NoError, chatId)
       /\ UNCHANGED <<messages, blocks, now, removedByBlock,
                      otherConceptsThanMessaging>>

\* The self check and await this.blocks.findOne({blocker, blocked}).
blockUser_findBlock(p, requester, target) ==
    LET error == blockUserError(requester, target)
    IN /\ calls[p] = Idle
       /\ IF error # NoError
          THEN returnMessaging(p, "blockUser", error, 0)
          ELSE /\ proceed(p, [Idle EXCEPT
                                 !.op = "blockUser",
                                 !.pc = "insertBlock",
                                 !.args = [requester |-> requester,
                                           target |-> target]])
               /\ UNCHANGED ret
       /\ UNCHANGED <<messagingVars, nextId, otherConceptsThanMessaging>>

\* await this.blocks.insertOne(newBlock)
blockUser_insertBlock(p) ==
    LET blockId == freshID(0)
    IN /\ calls[p].op = "blockUser"
       /\ calls[p].pc = "insertBlock"
       /\ blockId <= MaxChatIds
       /\ blocks' = Append(blocks,
                       [_id |-> blockId,
                        blocker |-> calls[p].args.requester,
                        blocked |-> calls[p].args.target])
       /\ nextId' = nextId + 1
       /\ proceed(p, [calls[p] EXCEPT !.pc = "findChats"])
       /\ UNCHANGED <<chats, messages, now, removedByBlock, ret,
                      otherConceptsThanMessaging>>

\* await this.chats.find({participants: {$all: [...]}}).toArray(); with no
\* chat found the loop has no turn and the handler returns.
blockUser_findChats(p) ==
    LET chatsToUpdate ==
            SelectSeq(chats, LAMBDA c :
                containsBoth(c, calls[p].args.requester, calls[p].args.target))
    IN /\ calls[p].op = "blockUser"
       /\ calls[p].pc = "findChats"
       /\ IF chatsToUpdate = <<>>
          THEN returnMessaging(p, "blockUser", NoError, 0)
          ELSE /\ proceed(p, [calls[p] EXCEPT
                                 !.pc = "pullParticipant",
                                 !.queue = [i \in 1..Len(chatsToUpdate) |->
                                               chatsToUpdate[i]._id]])
               /\ UNCHANGED ret
       /\ UNCHANGED <<messagingVars, nextId, otherConceptsThanMessaging>>

\* One turn of the loop over chatsToUpdate:
\* await this.chats.updateOne({_id: chat._id}, {$pull: {participants: requester}})
blockUser_pullParticipant(p) ==
    LET chat == Head(calls[p].queue)
        requester == calls[p].args.requester
    IN /\ calls[p].op = "blockUser"
       /\ calls[p].pc = "pullParticipant"
       /\ chats' = replaceChat(chat, pullParticipant(findChat(chat), requester))
       /\ removedByBlock' = removedByBlock \cup {<<chat, requester>>}
       /\ IF Tail(calls[p].queue) = <<>>
          THEN returnMessaging(p, "blockUser", NoError, 0)
          ELSE /\ proceed(p, [calls[p] EXCEPT !.queue = Tail(@)])
               /\ UNCHANGED ret
       /\ UNCHANGED <<messages, blocks, now, nextId,
                      otherConceptsThanMessaging>>

startChatSteps(p) ==
    \/ \E creator \in ChatUsers, participants \in ParticipantLists :
          startChat_findFirstBlock(p, creator, participants)
    \/ startChat_findBlock(p)
    \/ startChat_insertChat(p)

blockUserSteps(p) ==
    \/ \E requester \in ChatUsers, target \in ChatUsers :
          blockUser_findBlock(p, requester, target)
    \/ blockUser_insertBlock(p)
    \/ blockUser_findChats(p)
    \/ blockUser_pullParticipant(p)

\* One process starts chats while the other blocks users.
NextStartChatBesideBlock == startChatSteps(1) \/ blockUserSteps(2)

SpecStartChatBesideBlock == Init /\ [][NextStartChatBesideBlock]_vars

\* ------------------------------------------------------------------------
\* C40: no chat has among its participants both the blocker and the blocked
\* user of an existing Block also when a startChat and a blockUser between
\* two of its participants interleave at their store calls: once both
\* invocations have returned, no chat holds a blocked pair.
\* ------------------------------------------------------------------------
C40_NoBlockedPairWhenRacing ==
    (\A p \in Procs : calls[p] = Idle)
       => \A i \in 1..Len(chats) : \A b \in Range(blocks) :
             ~({b.blocker, b.blocked} \subseteq Range(chats[i].participants))

====
